---- MODULE Spec2Model ----
(***************************************************************************)
(* A model of the EquiCloud delta-sync storage engine: the blob codec      *)
(* (lib/utils.rs), the data service and the settings service of            *)
(* DatabaseService (lib/database.rs) and the /v2 handlers that drive them  *)
(* (routes/v2/data.rs, routes/v2/sync.rs).                                 *)
(*                                                                         *)
(* Every handler is a task that is suspended at each storage statement it  *)
(* awaits; the statements of different tasks interleave freely, and a      *)
(* statement may fail (the driver returns Err).  Byte strings are          *)
(* sequences of numbers 0..255.                                            *)
(***************************************************************************)
EXTENDS Integers, Sequences, FiniteSets, TLC

VARIABLES
    now,       \* chrono::Utc::now().timestamp_millis(), in model ticks
    data,      \* table `data` of the one user: key -> row | NoRow
    written,   \* history: the body of the last successful write to each key
    users,     \* table `users`: storage key -> row | NoRow
    hist,      \* history of the settings rows: the initial legacy row, deletes
    task,      \* the request tasks in flight: their position and locals
    alone,     \* history: no other writing request overlapped task t so far
    resp       \* the response returned by the last step, NoResp if none

vars == <<now, data, written, users, hist, task, alone, resp>>

(***************************************************************************)
(* Bounds of the model.                                                    *)
(***************************************************************************)
MaxTime == 1
MaxVersion == 2
\* CONFIG.max_backup_size_bytes and CONFIG.max_key_size_bytes (read from the
\* environment, lib/utils.rs:127-134), scaled down to the model's values.
MaxBackupBytes == 10
MaxKeySizeBytes == 8
MaxDatastoreKeySizeBytes == 9

(***************************************************************************)
(* Program constants.                                                      *)
(***************************************************************************)
MAX_KEY_NAME_LEN == 256
MAX_DECOMPRESSION_SIZE == 10485760
ZSTD_MAGIC == <<40, 181, 47, 253>>
CompressionEnabled == TRUE
\* CONFIG.datastore_enabled, read from the environment once at start: off
\* unless the process was started with it on.
DatastoreEnabled ==
    /\ "datastore_enabled" \in DOMAIN hist
    /\ hist.datastore_enabled

Tasks == {"t1", "t2"}

(***************************************************************************)
(* Blob codec (lib/utils.rs).                                              *)
(***************************************************************************)

\* The Zstandard encoder is an external crate.  Its stand-in is a run-length
\* code behind the Zstandard magic: like the real one it emits the magic
\* first, shrinks repetitive input, grows short or irregular input, and is
\* inverted by the decoder.
RECURSIVE RunLen(_, _)
RunLen(s, i) ==
    IF i < Len(s) /\ s[i + 1] = s[i] /\ i < 255
    THEN 1 + RunLen(s, i + 1)
    ELSE 1

RECURSIVE RleEncode(_)
RleEncode(s) ==
    IF s = <<>> THEN <<>>
    ELSE LET n == RunLen(s, 1)
         IN  <<n, s[1]>> \o RleEncode(SubSeq(s, n + 1, Len(s)))

RECURSIVE RleDecode(_)
RleDecode(p) ==
    IF p = <<>> THEN <<>>
    ELSE [i \in 1..p[1] |-> p[2]] \o RleDecode(SubSeq(p, 3, Len(p)))

ZstdEncode(bytes) == ZSTD_MAGIC \o RleEncode(bytes)

\* The decoder: Err on a truncated or malformed frame.
ZstdDecode(bytes) ==
    LET p == SubSeq(bytes, 5, Len(bytes))
        wellFormed == /\ Len(p) > 0
                      /\ Len(p) % 2 = 0
                      /\ \A i \in 1..Len(p) : (i % 2 = 1) => p[i] >= 1
    IN  IF wellFormed THEN [ok |-> TRUE, out |-> RleDecode(p)]
        ELSE [ok |-> FALSE, out |-> <<>>]

compress(bytes) ==
    IF ~CompressionEnabled \/ bytes = <<>> THEN bytes
    ELSE LET output == ZstdEncode(bytes)
         IN  IF Len(output) < Len(bytes) THEN output ELSE bytes

decompress(bytes) ==
    IF Len(bytes) < 4 \/ SubSeq(bytes, 1, 4) # ZSTD_MAGIC THEN bytes
    ELSE LET r == ZstdDecode(bytes)
         IN  IF r.ok
             THEN IF Len(r.out) > MAX_DECOMPRESSION_SIZE THEN bytes ELSE r.out
             ELSE bytes

\* hex(SHA-256(bytes)[0..8]): a digest, taken to be collision-free.
compute_checksum(bytes) == <<"sha256/8", bytes>>

(***************************************************************************)
(* Key validator (lib/utils.rs).  Keys are byte strings.                   *)
(***************************************************************************)
AllowedKeyByte(b) ==
    \/ b \in 48..57 \/ b \in 65..90 \/ b \in 97..122
    \/ b = 95 \/ b = 45 \/ b = 46 \/ b = 47

\* A validator whose length limit is one too low.
validate_key_below_limit(key) ==
    IF Len(key) = 0 THEN "Empty"
    ELSE IF Len(key) >= MAX_KEY_NAME_LEN THEN "TooLong"
    ELSE IF \E i \in 1..Len(key) : ~AllowedKeyByte(key[i]) THEN "InvalidChars"
    ELSE "Ok"

validate_key(key) ==
    IF Len(key) = 0 THEN "Empty"
    ELSE IF Len(key) > MAX_KEY_NAME_LEN THEN "TooLong"
    ELSE IF \E i \in 1..Len(key) : ~AllowedKeyByte(key[i]) THEN "InvalidChars"
    ELSE "Ok"

\* "dataStore/"
DataStorePrefix == <<100, 97, 116, 97, 83, 116, 111, 114, 101, 47>>

IsDataStoreKey(key) ==
    /\ Len(key) >= Len(DataStorePrefix)
    /\ SubSeq(key, 1, Len(DataStorePrefix)) = DataStorePrefix

(***************************************************************************)
(* Inputs.                                                                 *)
(***************************************************************************)
KeyA == <<97>>
KeyB == <<98>>
DataKeys == {KeyA, KeyB}

\* Three bodies: irregular (stored as is), a body that is itself a
\* Zstandard frame (stored as is: encoding it would grow it), and a
\* repetitive body (stored compressed).
V5 == <<2, 3, 2, 3, 2>>
V6 == <<40, 181, 47, 253, 8, 1>>
V8 == <<1, 1, 1, 1, 1, 1, 1, 1>>
Values == {V5, V6, V8}

OctetStream == "application/octet-stream"

NoRow == [absent |-> TRUE]
NoExisting == [absent |-> TRUE]
NoValue == <<"none">>
Idle == [pc |-> "idle"]
NoResp == [op |-> "none"]

(***************************************************************************)
(* Storage adapter statements on table `data`.                             *)
(***************************************************************************)
Manifest == {k \in DOMAIN data : data[k] # NoRow}

\* SELECT SUM(size_bytes) FROM data WHERE user_id = ?
RECURSIVE SumSizes(_, _)
SumSizes(rows, ks) ==
    IF ks = {} THEN 0
    ELSE LET k == CHOOSE x \in ks : TRUE
         IN  rows[k].size_bytes + SumSizes(rows, ks \ {k})

get_user_total_size == SumSizes(data, Manifest)

\* SELECT version, created_at, size_bytes FROM data WHERE user_id = ? AND key = ?
get_data_version_and_size(key) ==
    IF data[key] = NoRow THEN NoExisting
    ELSE [version |-> data[key].version,
          created_at |-> data[key].created_at,
          size_bytes |-> data[key].size_bytes]

(***************************************************************************)
(* History bookkeeping shared by the request tasks.                        *)
(***************************************************************************)
Active(t) == task[t].pc # "idle"

\* Task t starts: it is alone if nothing else is in flight, and every task
\* in flight is overlapped from now on.
Begin(t) ==
    [u \in Tasks |->
        IF u = t THEN \A w \in Tasks \ {t} : ~Active(w) ELSE FALSE]

\* A one-statement write overlaps every task in flight.
Overlap == [u \in Tasks |-> FALSE]

End(t) == [alone EXCEPT ![t] = FALSE]

(***************************************************************************)
(* PUT /v2/data/{key}: put_data and save_data_key_with_quota_check.        *)
(***************************************************************************)

\* The handler's checks before storage is touched: the HTTP status, 200 to
\* go on.
put_data_precheck(key, body, ctype) ==
    IF validate_key(key) # "Ok" THEN 400
    ELSE IF ~DatastoreEnabled /\ IsDataStoreKey(key) THEN 403
    ELSE IF ctype # OctetStream THEN 415
    ELSE IF Len(body) > (IF IsDataStoreKey(key) THEN MaxDatastoreKeySizeBytes
                         ELSE MaxKeySizeBytes) THEN 413
    ELSE 200

PutStart(t, key, body, ctype) ==
    /\ ~Active(t)
    /\ LET pre == put_data_precheck(key, body, ctype)
       IN  IF pre # 200
           THEN /\ resp' = [op |-> "put", key |-> key, status |-> pre]
                /\ UNCHANGED <<task, alone>>
           ELSE IF Len(body) > MaxKeySizeBytes
           THEN /\ resp' = [op |-> "put", key |-> key, status |-> 500]
                /\ UNCHANGED <<task, alone>>
           ELSE /\ task' = [task EXCEPT ![t] =
                              [pc |-> "put_read", key |-> key, body |-> body,
                               checksum |-> compute_checksum(body),
                               now |-> now, total |-> 0,
                               existing |-> NoExisting]]
                /\ alone' = Begin(t)
                /\ resp' = NoResp
    /\ UNCHANGED <<now, data, written, users, hist>>

\* join!(total_future, version_future)
PutRead(t, ok) ==
    /\ task[t].pc = "put_read"
    /\ IF ok
       THEN /\ data[task[t].key] # NoRow => data[task[t].key].version < MaxVersion
            /\ task' = [task EXCEPT ![t] =
                          [@ EXCEPT !.pc = "put_write",
                                    !.total = get_user_total_size,
                                    !.existing = get_data_version_and_size(task[t].key)]]
            /\ resp' = NoResp
            /\ UNCHANGED alone
       ELSE /\ task' = [task EXCEPT ![t] = Idle]
            /\ alone' = End(t)
            /\ resp' = [op |-> "put", key |-> task[t].key, status |-> 500]
    /\ UNCHANGED <<now, data, written, users, hist>>

\* A version allocator that restarts at 1 on every write.
NextVersionRestart(existing) == 1

\* A version allocator that hands the version read back unchanged.
NextVersionUnchanged(existing) ==
    IF existing = NoExisting THEN 1 ELSE existing.version

NextVersion(existing) ==
    IF existing = NoExisting THEN 1 ELSE existing.version + 1

CreatedAt(existing, t_now) ==
    IF existing = NoExisting THEN t_now ELSE existing.created_at

ExistingSize(existing) ==
    IF existing = NoExisting THEN 0 ELSE existing.size_bytes

\* A quota sum that forgets the row being replaced.
QuotaTotalPlusNew(total_size, existing_size, new_size) ==
    total_size + new_size

QuotaNewTotal(total_size, existing_size, new_size) ==
    total_size - existing_size + new_size

PutWrite(t, ok) ==
    /\ task[t].pc = "put_write"
    /\ LET l == task[t]
           new_size == Len(l.body)
           new_total == QuotaNewTotal(l.total, ExistingSize(l.existing), new_size)
           version == NextVersion(l.existing)
           row == [value |-> compress(l.body), version |-> version,
                   checksum |-> l.checksum, size_bytes |-> new_size,
                   created_at |-> CreatedAt(l.existing, l.now),
                   updated_at |-> l.now]
       IN  IF new_total > MaxBackupBytes
           THEN /\ resp' = [op |-> "put", key |-> l.key, status |-> 413,
                            error |-> "Total storage limit exceeded"]
                /\ UNCHANGED <<data, written>>
           ELSE IF ~ok
           THEN /\ resp' = [op |-> "put", key |-> l.key, status |-> 500]
                /\ UNCHANGED <<data, written>>
           ELSE /\ data' = [data EXCEPT ![l.key] = row]
                /\ written' = [written EXCEPT ![l.key] = l.body]
                /\ resp' = [op |-> "put", key |-> l.key, status |-> 200,
                            version |-> version, checksum |-> l.checksum,
                            updated_at |-> l.now, alone |-> alone[t]]
    /\ task' = [task EXCEPT ![t] = Idle]
    /\ alone' = End(t)
    /\ UNCHANGED <<now, users, hist>>

(***************************************************************************)
(* GET and DELETE /v2/data/{key}: one statement each.                      *)
(***************************************************************************)
NoHeader == <<"no header">>

GetData(key, if_none_match, ok) ==
    /\ resp' =
         IF validate_key(key) # "Ok"
         THEN [op |-> "get", key |-> key, status |-> 400]
         ELSE IF ~DatastoreEnabled /\ IsDataStoreKey(key)
         THEN [op |-> "get", key |-> key, status |-> 403]
         ELSE IF ~ok THEN [op |-> "get", key |-> key, status |-> 500]
         ELSE IF data[key] = NoRow THEN [op |-> "get", key |-> key, status |-> 404]
         ELSE IF if_none_match = data[key].checksum
         THEN [op |-> "get", key |-> key, status |-> 304]
         ELSE [op |-> "get", key |-> key, status |-> 200,
               value |-> decompress(data[key].value),
               checksum |-> data[key].checksum,
               version |-> data[key].version]
    /\ UNCHANGED <<now, data, written, users, hist, task, alone>>

DeleteData(key, ok) ==
    /\ IF validate_key(key) # "Ok"
       THEN /\ resp' = [op |-> "delete", key |-> key, status |-> 400]
            /\ UNCHANGED <<data, written, alone>>
       ELSE IF ~DatastoreEnabled /\ IsDataStoreKey(key)
       THEN /\ resp' = [op |-> "delete", key |-> key, status |-> 403]
            /\ UNCHANGED <<data, written, alone>>
       ELSE IF ~ok
       THEN /\ resp' = [op |-> "delete", key |-> key, status |-> 500]
            /\ UNCHANGED <<data, written, alone>>
       ELSE /\ data' = [data EXCEPT ![key] = NoRow]
            /\ written' = [written EXCEPT ![key] = NoValue]
            /\ alone' = Overlap
            /\ resp' = [op |-> "delete", key |-> key, status |-> 204]
    /\ UNCHANGED <<now, users, hist, task>>

(***************************************************************************)
(* POST /v2/sync: delta_sync, get_data_keys, get_versions_batch and        *)
(* save_data_keys_batch.  A request is a client manifest (key -> version,  *)
(* checksum) and a list of uploads (key, value, checksum).                 *)
(***************************************************************************)
Upload(key, value) ==
    [key |-> key, value |-> value, checksum |-> compute_checksum(value)]

\* SELECT key, version, checksum, size_bytes, updated_at FROM data WHERE user_id = ?
get_data_manifest ==
    [k \in Manifest |->
        [version |-> data[k].version, checksum |-> data[k].checksum,
         size_bytes |-> data[k].size_bytes, updated_at |-> data[k].updated_at]]

\* A selection that also skips a key whose checksum the client does not hold.
keys_to_download_by_version(server_map, client_map) ==
    {k \in DOMAIN server_map :
        ~(/\ k \in DOMAIN client_map
          /\ client_map[k].version >= server_map[k].version)}

\* Step 2: the server keys the client does not hold.
keys_to_download(server_map, client_map) ==
    {k \in DOMAIN server_map :
        ~(/\ k \in DOMAIN client_map
          /\ client_map[k].version >= server_map[k].version
          /\ client_map[k].checksum = server_map[k].checksum)}

KeyErrorMessage(kind) ==
    CASE kind = "Empty" -> "Key cannot be empty"
      [] kind = "TooLong" -> "Key name exceeds 256 characters"
      [] OTHER -> "Key contains invalid characters (allowed: alphanumeric, _, -, ., /)"

\* A dominance test that lets an equal client version through.
dominated_strictly(server_map, client_map, key) ==
    /\ key \in DOMAIN server_map
    /\ (key \notin DOMAIN client_map
        \/ client_map[key].version < server_map[key].version)

\* A test that drops an upload only when the client declared a version.
dominated_when_declared(server_map, client_map, key) ==
    /\ key \in DOMAIN server_map
    /\ key \in DOMAIN client_map
    /\ client_map[key].version <= server_map[key].version

dominated_by_server(server_map, client_map, key) ==
    /\ key \in DOMAIN server_map
    /\ (key \notin DOMAIN client_map
        \/ client_map[key].version <= server_map[key].version)

\* A checksum test that accepts whatever the client declares.
checksum_unchecked(u) == TRUE

\* computed == upload.checksum
checksum_matches(u) == compute_checksum(u.value) = u.checksum

\* A verdict whose provisional total does not give back the size of the row
\* the upload replaces.
UploadVerdictNoCredit(server_map, client_map, u, running_size) ==
    LET new_running == running_size + Len(u.value)
    IN  IF validate_key(u.key) # "Ok"
        THEN [kind |-> "error", error |-> KeyErrorMessage(validate_key(u.key))]
        ELSE IF Len(u.value) > MaxKeySizeBytes
        THEN [kind |-> "error", error |-> "Value exceeds 1MB limit"]
        ELSE IF ~checksum_matches(u)
        THEN [kind |-> "error", error |-> "Checksum mismatch"]
        ELSE IF dominated_by_server(server_map, client_map, u.key)
        THEN [kind |-> "dropped"]
        ELSE IF new_running > MaxBackupBytes
        THEN [kind |-> "error", error |-> "Total storage limit exceeded"]
        ELSE [kind |-> "valid", running |-> new_running]

\* Step 3, one upload against the running total.
UploadVerdict(server_map, client_map, u, running_size) ==
    LET existing_size == IF u.key \in DOMAIN server_map
                         THEN server_map[u.key].size_bytes ELSE 0
        new_running == running_size - existing_size + Len(u.value)
    IN  IF validate_key(u.key) # "Ok"
        THEN [kind |-> "error", error |-> KeyErrorMessage(validate_key(u.key))]
        ELSE IF Len(u.value) > MaxKeySizeBytes
        THEN [kind |-> "error", error |-> "Value exceeds 1MB limit"]
        ELSE IF ~checksum_matches(u)
        THEN [kind |-> "error", error |-> "Checksum mismatch"]
        ELSE IF dominated_by_server(server_map, client_map, u.key)
        THEN [kind |-> "dropped"]
        ELSE IF new_running > MaxBackupBytes
        THEN [kind |-> "error", error |-> "Total storage limit exceeded"]
        ELSE [kind |-> "valid", running |-> new_running]

\* An admission that keeps no record of the rejected uploads.
RECURSIVE AdmitUploadsSilent(_, _, _, _)
AdmitUploadsSilent(server_map, client_map, uploads, running_size) ==
    IF uploads = <<>>
    THEN [valid |-> <<>>, errors |-> <<>>, running |-> running_size]
    ELSE LET u == Head(uploads)
             v == UploadVerdict(server_map, client_map, u, running_size)
             rest == AdmitUploadsSilent(server_map, client_map, Tail(uploads),
                                        IF v.kind = "valid" THEN v.running
                                        ELSE running_size)
         IN  [valid |-> (IF v.kind = "valid" THEN <<u>> ELSE <<>>) \o rest.valid,
              errors |-> <<>>,
              running |-> rest.running]

\* Step 3, the uploads in request order: the admitted uploads, the errors
\* and the final running total.
RECURSIVE AdmitUploads(_, _, _, _)
AdmitUploads(server_map, client_map, uploads, running_size) ==
    IF uploads = <<>>
    THEN [valid |-> <<>>, errors |-> <<>>, running |-> running_size]
    ELSE LET u == Head(uploads)
             v == UploadVerdict(server_map, client_map, u, running_size)
             rest == AdmitUploads(server_map, client_map, Tail(uploads),
                                  IF v.kind = "valid" THEN v.running
                                  ELSE running_size)
         IN  [valid |-> (IF v.kind = "valid" THEN <<u>> ELSE <<>>) \o rest.valid,
              errors |-> (IF v.kind = "error"
                          THEN <<[key |-> u.key, error |-> v.error]>>
                          ELSE <<>>) \o rest.errors,
              running |-> rest.running]

Admitted(l) ==
    AdmitUploads(l.manifest, l.cm, l.uploads, SumSizes(l.manifest, DOMAIN l.manifest))

SyncStart(t, cm, uploads, ok) ==
    /\ ~Active(t)
    /\ IF ~ok
       THEN /\ resp' = [op |-> "sync", status |-> 500]
            /\ UNCHANGED <<task, alone>>
       ELSE LET l == [pc |-> "sync_start", cm |-> cm, uploads |-> uploads,
                      manifest |-> get_data_manifest,
                      downloads |-> <<>>, download_failed |-> FALSE,
                      versions |-> <<>>, versions_failed |-> FALSE,
                      now |-> 0, pending |-> {}, saved |-> {},
                      batch_failed |-> FALSE]
                pc1 == IF keys_to_download(l.manifest, cm) # {} THEN "sync_download"
                       ELSE IF Admitted(l).valid # <<>> THEN "sync_versions"
                       ELSE "sync_respond"
            IN  /\ task' = [task EXCEPT ![t] = [l EXCEPT !.pc = pc1]]
                /\ alone' = Begin(t)
                /\ resp' = NoResp
    /\ UNCHANGED <<now, data, written, users, hist>>

\* get_data_keys: the selected keys' rows, decompressed; a missing row is
\* omitted; any failed read fails the whole fetch.
SyncDownload(t, ok) ==
    /\ task[t].pc = "sync_download"
    /\ LET l == task[t]
           want == keys_to_download(l.manifest, l.cm)
           got == [k \in want \cap Manifest |->
                     [value |-> decompress(data[k].value),
                      version |-> data[k].version,
                      checksum |-> data[k].checksum]]
           pc1 == IF Admitted(l).valid # <<>> THEN "sync_versions"
                  ELSE "sync_respond"
       IN  task' = [task EXCEPT ![t] =
                      [l EXCEPT !.pc = pc1,
                                !.downloads = IF ok THEN got ELSE <<>>,
                                !.download_failed = ~ok]]
    /\ resp' = NoResp
    /\ UNCHANGED <<now, data, written, users, hist, alone>>

\* SELECT version, created_at FROM data WHERE user_id = ? AND key = ?, per key
get_versions_batch(keys) ==
    [k \in keys \cap Manifest |->
        [version |-> data[k].version, created_at |-> data[k].created_at]]

UploadKeys(ups) == {ups[i].key : i \in 1..Len(ups)}

\* A step 4 that takes a failed get_versions_batch for an empty map and
\* goes on to the upserts.
SyncVersionsSavingAnyway(t, ok) ==
    /\ task[t].pc = "sync_versions"
    /\ LET l == task[t]
           valid == Admitted(l).valid
       IN  /\ \A k \in UploadKeys(valid) :
                 data[k] # NoRow => data[k].version < MaxVersion
           /\ task' = [task EXCEPT ![t] =
                         [l EXCEPT !.pc = "sync_save",
                                   !.versions = IF ok
                                                THEN get_versions_batch(UploadKeys(valid))
                                                ELSE <<>>,
                                   !.versions_failed = ~ok,
                                   !.now = now,
                                   !.pending = 1..Len(valid)]]
    /\ resp' = NoResp
    /\ UNCHANGED <<now, data, written, users, hist, alone>>

\* Step 4, first half: get_versions_batch, then save_data_keys_batch takes
\* its timestamp and issues one upsert per admitted upload.
SyncVersions(t, ok) ==
    /\ task[t].pc = "sync_versions"
    /\ LET l == task[t]
           valid == Admitted(l).valid
       IN  IF ok
           THEN /\ \A k \in UploadKeys(valid) :
                      data[k] # NoRow => data[k].version < MaxVersion
                /\ task' = [task EXCEPT ![t] =
                              [l EXCEPT !.pc = "sync_save",
                                        !.versions = get_versions_batch(UploadKeys(valid)),
                                        !.now = now,
                                        !.pending = 1..Len(valid)]]
           ELSE task' = [task EXCEPT ![t] =
                           [l EXCEPT !.pc = "sync_respond",
                                     !.versions_failed = TRUE]]
    /\ resp' = NoResp
    /\ UNCHANGED <<now, data, written, users, hist, alone>>

BatchVersion(existing_versions, key) ==
    IF key \in DOMAIN existing_versions
    THEN existing_versions[key].version + 1 ELSE 1

BatchCreatedAt(existing_versions, key, t_now) ==
    IF key \in DOMAIN existing_versions
    THEN existing_versions[key].created_at ELSE t_now

\* Step 4, second half: the upserts of save_data_keys_batch complete one by
\* one, in any order.
SyncUpsert(t, i, ok) ==
    /\ task[t].pc = "sync_save"
    /\ i \in task[t].pending
    /\ LET l == task[t]
           u == Admitted(l).valid[i]
           row == [value |-> compress(u.value),
                   version |-> BatchVersion(l.versions, u.key),
                   checksum |-> u.checksum, size_bytes |-> Len(u.value),
                   created_at |-> BatchCreatedAt(l.versions, u.key, l.now),
                   updated_at |-> l.now]
           left == l.pending \ {i}
       IN  /\ task' = [task EXCEPT ![t] =
                         [l EXCEPT !.pc = IF left = {} THEN "sync_respond"
                                          ELSE "sync_save",
                                   !.pending = left,
                                   !.saved = IF ok THEN @ \cup {i} ELSE @,
                                   !.batch_failed = @ \/ ~ok]]
           /\ IF ok
              THEN /\ data' = [data EXCEPT ![u.key] = row]
                   /\ written' = [written EXCEPT ![u.key] = u.value]
              ELSE UNCHANGED <<data, written>>
    /\ resp' = NoResp
    /\ UNCHANGED <<now, users, hist, alone>>

\* The last upload of key k among the admitted ones (a HashMap keeps the
\* last insert).
LastIndexOf(ups, k) ==
    CHOOSE i \in 1..Len(ups) :
        /\ ups[i].key = k
        /\ \A j \in (i + 1)..Len(ups) : ups[j].key # k

\* The orders in which the members of a finite set can come: the rows of a
\* SELECT without ORDER BY, the entries of a HashMap.
Orders(S) ==
    {s \in [1..Cardinality(S) -> S] :
        \A i, j \in 1..Cardinality(S) : s[i] = s[j] => i = j}

\* The Vec get_data_manifest returned, its rows in the given order.
ManifestEntries(manifest, order) ==
    [i \in 1..Len(order) |->
        [key |-> order[i],
         version |-> manifest[order[i]].version,
         checksum |-> manifest[order[i]].checksum,
         size_bytes |-> manifest[order[i]].size_bytes,
         updated_at |-> manifest[order[i]].updated_at]]

UpdatedEntry(updated_keys, key, t_now) ==
    [key |-> key,
     version |-> updated_keys[key].version,
     checksum |-> updated_keys[key].checksum,
     size_bytes |-> updated_keys[key].size_bytes,
     updated_at |-> t_now]

\* A projection that pushes every updated key, the ones it already rewrote
\* in place included.
final_manifest_pushing_all(server_manifest, updated_keys, rest, t_now) ==
    IF DOMAIN updated_keys = {}
    THEN server_manifest
    ELSE [i \in 1..Len(server_manifest) |->
            IF server_manifest[i].key \in DOMAIN updated_keys
            THEN UpdatedEntry(updated_keys, server_manifest[i].key, t_now)
            ELSE server_manifest[i]]
         \o LET all == CHOOSE o \in Orders(DOMAIN updated_keys) : TRUE
            IN  [i \in 1..Len(all) |-> UpdatedEntry(updated_keys, all[i], t_now)]

\* Step 5: the rows of the loaded manifest (one per key, the key being part
\* of the primary key), each rewritten if its key was removed from
\* updated_keys, then what is left of updated_keys, in the order `rest`.
final_manifest(server_manifest, updated_keys, rest, t_now) ==
    IF DOMAIN updated_keys = {}
    THEN server_manifest
    ELSE [i \in 1..Len(server_manifest) |->
            IF server_manifest[i].key \in DOMAIN updated_keys
            THEN UpdatedEntry(updated_keys, server_manifest[i].key, t_now)
            ELSE server_manifest[i]]
         \o [i \in 1..Len(rest) |-> UpdatedEntry(updated_keys, rest[i], t_now)]

\* The entries of a manifest by key, as a client that keys its manifest
\* holds them.
ManifestByKey(entries) ==
    [k \in {entries[i].key : i \in 1..Len(entries)} |->
        LET e == entries[CHOOSE i \in 1..Len(entries) : entries[i].key = k]
        IN  [version |-> e.version, checksum |-> e.checksum,
             size_bytes |-> e.size_bytes, updated_at |-> e.updated_at]]

\* A response that reports the uploads a failed batch did not persist.
SyncRespondReportingBatch(t) ==
    /\ task[t].pc = "sync_respond"
    /\ LET l == task[t]
           adm == Admitted(l)
           valid == adm.valid
           saved_ok == ~l.versions_failed /\ ~l.batch_failed /\ valid # <<>>
           uploaded == IF saved_ok
                       THEN [i \in 1..Len(valid) |->
                               [key |-> valid[i].key,
                                version |-> BatchVersion(l.versions, valid[i].key),
                                checksum |-> valid[LastIndexOf(valid, valid[i].key)].checksum]]
                       ELSE <<>>
           updated_keys ==
               [k \in IF saved_ok THEN UploadKeys(valid) ELSE {} |->
                   LET u == valid[LastIndexOf(valid, k)]
                   IN  [version |-> BatchVersion(l.versions, k),
                        checksum |-> u.checksum,
                        size_bytes |-> Len(u.value)]]
           download_errors ==
               IF l.download_failed
               THEN {[key |-> k, error |-> "Failed to download"] :
                        k \in keys_to_download(l.manifest, l.cm)}
               ELSE {}
           save_errors ==
               IF l.versions_failed \/ l.batch_failed
               THEN [i \in 1..Len(valid) |->
                       [key |-> valid[i].key, error |-> "Failed to save"]]
               ELSE <<>>
       IN  \E order \in Orders(DOMAIN l.manifest),
              rest \in Orders(DOMAIN updated_keys \ DOMAIN l.manifest) :
             LET entries == final_manifest(ManifestEntries(l.manifest, order),
                                           updated_keys, rest, now)
             IN
           resp' = [op |-> "sync", status |-> 200,
                    manifest_entries |-> entries,
                    server_manifest |-> ManifestByKey(entries),
                    downloads |-> l.downloads,
                    uploaded |-> uploaded,
                    download_errors |-> download_errors,
                    errors |-> adm.errors \o save_errors,
                    alone |-> alone[t]]
    /\ task' = [task EXCEPT ![t] = Idle]
    /\ alone' = End(t)
    /\ UNCHANGED <<now, data, written, users, hist>>

\* Step 5 and the response.
SyncRespond(t) ==
    /\ task[t].pc = "sync_respond"
    /\ LET l == task[t]
           adm == Admitted(l)
           valid == adm.valid
           saved_ok == ~l.versions_failed /\ ~l.batch_failed /\ valid # <<>>
           uploaded == IF saved_ok
                       THEN [i \in 1..Len(valid) |->
                               [key |-> valid[i].key,
                                version |-> BatchVersion(l.versions, valid[i].key),
                                checksum |-> valid[LastIndexOf(valid, valid[i].key)].checksum]]
                       ELSE <<>>
           updated_keys ==
               [k \in IF saved_ok THEN UploadKeys(valid) ELSE {} |->
                   LET u == valid[LastIndexOf(valid, k)]
                   IN  [version |-> BatchVersion(l.versions, k),
                        checksum |-> u.checksum,
                        size_bytes |-> Len(u.value)]]
           download_errors ==
               IF l.download_failed
               THEN {[key |-> k, error |-> "Failed to download"] :
                        k \in keys_to_download(l.manifest, l.cm)}
               ELSE {}
           save_errors ==
               IF l.versions_failed
               THEN [i \in 1..Len(valid) |->
                       [key |-> valid[i].key, error |-> "Failed to save"]]
               ELSE <<>>
       IN  \E order \in Orders(DOMAIN l.manifest),
              rest \in Orders(DOMAIN updated_keys \ DOMAIN l.manifest) :
             LET entries == final_manifest(ManifestEntries(l.manifest, order),
                                           updated_keys, rest, now)
             IN
           resp' = [op |-> "sync", status |-> 200,
                    manifest_entries |-> entries,
                    server_manifest |-> ManifestByKey(entries),
                    downloads |-> l.downloads,
                    uploaded |-> uploaded,
                    download_errors |-> download_errors,
                    errors |-> adm.errors \o save_errors,
                    alone |-> alone[t]]
    /\ task' = [task EXCEPT ![t] = Idle]
    /\ alone' = End(t)
    /\ UNCHANGED <<now, data, written, users, hist>>

(***************************************************************************)
(* The clock.                                                              *)
(***************************************************************************)
Tick ==
    /\ now < MaxTime
    /\ now' = now + 1
    /\ resp' = NoResp
    /\ UNCHANGED <<data, written, users, hist, task, alone>>

(***************************************************************************)
(* The data service under concurrent requests.  Init is the empty table    *)
(* of a new user.                                                          *)
(***************************************************************************)
NoUsers == [k \in {} |-> NoRow]

InitData ==
    /\ now = 0
    /\ data = [k \in DataKeys |-> NoRow]
    /\ written = [k \in DataKeys |-> NoValue]
    /\ users = NoUsers
    /\ hist = [op |-> "none"]
    /\ task = [t \in Tasks |-> Idle]
    /\ alone = [t \in Tasks |-> FALSE]
    /\ resp = NoResp

\* The requests of Spec: PUT, GET and DELETE on two keys, all within one
\* millisecond.  Either task puts the two bodies that are stored as they
\* are; the first also puts the compressible body on the first key.
PutBodies == {V5, V6}

NextData ==
    \/ \E t \in Tasks, k \in DataKeys, v \in PutBodies : PutStart(t, k, v, OctetStream)
    \/ PutStart("t1", KeyA, V8, OctetStream)
    \/ \E t \in Tasks, ok \in BOOLEAN : PutRead(t, ok)
    \/ \E t \in Tasks, ok \in BOOLEAN : PutWrite(t, ok)
    \/ \E k \in DataKeys, ok \in BOOLEAN : GetData(k, NoHeader, ok)
    \/ \E k \in DataKeys, ok \in BOOLEAN : DeleteData(k, ok)

Spec == InitData /\ [][NextData]_vars

\* The requests of SpecClock: PUT, sync and DELETE on one key with one body,
\* with the clock running.  A sync client either holds nothing or declares
\* the key at version MaxVersion, ahead of the server.
ClockManifests ==
    {<<>>,
     [k \in {KeyA} |-> [version |-> MaxVersion, checksum |-> compute_checksum(V5)]]}

ClockUploadLists == {<<Upload(KeyA, V5)>>}

NextClock ==
    \/ Tick
    \/ \E t \in Tasks : PutStart(t, KeyA, V5, OctetStream)
    \/ \E t \in Tasks, ok \in BOOLEAN : PutRead(t, ok)
    \/ \E t \in Tasks, ok \in BOOLEAN : PutWrite(t, ok)
    \/ \E ok \in BOOLEAN : DeleteData(KeyA, ok)
    \/ \E t \in Tasks, cm \in ClockManifests, ups \in ClockUploadLists, ok \in BOOLEAN :
          SyncStart(t, cm, ups, ok)
    \/ \E t \in Tasks, ok \in BOOLEAN : SyncDownload(t, ok)
    \/ \E t \in Tasks, ok \in BOOLEAN : SyncVersions(t, ok)
    \/ \E t \in Tasks, ok \in BOOLEAN : SyncUpsert(t, 1, ok)
    \/ \E t \in Tasks : SyncRespond(t)

SpecClock == InitData /\ [][NextClock]_vars

(***************************************************************************)
(* Delta sync on its own: one client syncing again and again, with every   *)
(* kind of upload: good, repeated key, wrong checksum, bad key, a key of   *)
(* the dataStore/ namespace.                                               *)
(***************************************************************************)

\* "dataStore/x"
DsKey == DataStorePrefix \o <<120>>

SyncDataKeys == {KeyA, KeyB, DsKey}

\* A checksum no value has.
BadChecksum == <<"sha256/8", <<"deadbeef">>>>

BadUpload(key, value) == [key |-> key, value |-> value, checksum |-> BadChecksum]

\* Client manifests: nothing, or the first key at some version with the
\* checksum of one of the bodies.
SyncManifests ==
    {<<>>} \cup
    {[k \in {KeyA} |-> [version |-> v, checksum |-> compute_checksum(b)]] :
        v \in 1..MaxVersion, b \in {V5, V6}}

SyncUploadLists ==
    {<<>>,
     <<Upload(KeyA, V5)>>,
     <<Upload(KeyA, V6)>>,
     <<Upload(KeyA, V5), Upload(KeyB, V5)>>,
     <<Upload(KeyB, V5), Upload(KeyB, V6)>>,
     <<BadUpload(KeyA, V5)>>,
     <<BadUpload(<<>>, V5)>>,
     <<Upload(DsKey, V5)>>}

\* The client takes the server_manifest of the response it just received
\* as its manifest and syncs again with nothing to upload.
ClientManifestOf(server_manifest) ==
    [k \in DOMAIN server_manifest |->
        [version |-> server_manifest[k].version,
         checksum |-> server_manifest[k].checksum]]

SyncAgain(t, ok) ==
    /\ resp.op = "sync"
    /\ resp.status = 200
    /\ SyncStart(t, ClientManifestOf(resp.server_manifest), <<>>, ok)

InitSync ==
    /\ now = 0
    /\ data = [k \in SyncDataKeys |-> NoRow]
    /\ written = [k \in SyncDataKeys |-> NoValue]
    /\ users = NoUsers
    /\ hist = [op |-> "none"]
    /\ task = [t \in Tasks |-> Idle]
    /\ alone = [t \in Tasks |-> FALSE]
    /\ resp = NoResp

NextSync ==
    \/ \E cm \in SyncManifests, ups \in SyncUploadLists, ok \in BOOLEAN :
          SyncStart("t1", cm, ups, ok)
    \/ \E ok \in BOOLEAN : SyncAgain("t1", ok)
    \/ \E ok \in BOOLEAN : SyncDownload("t1", ok)
    \/ \E ok \in BOOLEAN : SyncVersions("t1", ok)
    \/ \E i \in 1..2, ok \in BOOLEAN : SyncUpsert("t1", i, ok)
    \/ SyncRespond("t1")
    \/ \E ok \in BOOLEAN : GetData(DsKey, NoHeader, ok)
    \/ PutStart("t2", DsKey, V5, OctetStream)
    \/ \E ok \in BOOLEAN : DeleteData(DsKey, ok)

SpecSync == InitSync /\ [][NextSync]_vars

(***************************************************************************)
(* Settings: table `users`, one row per storage key.  The storage keys of  *)
(* a user are "settings:" + hex(SHA-256(id)[0..8]) (current) and           *)
(* "settings:" + decimal(CRC32(id)) (legacy); they are kept as tagged ids. *)
(***************************************************************************)
Uid == "42"

hash_user_id(user_id) == <<"settings:", "sha256", user_id>>

legacy_hash_user_id(user_id) == <<"settings:", "crc32", user_id>>

UserKeys == {hash_user_id(Uid), legacy_hash_user_id(Uid)}

\* get_legacy_key_if_different: Some(legacy key) or None.
get_legacy_key_if_different(user_id, new_key) ==
    IF legacy_hash_user_id(user_id) # new_key
    THEN {legacy_hash_user_id(user_id)} ELSE {}

\* Settings blobs: S1 is what a legacy row holds at the start, S2 is what
\* the requests write.
S1 == <<1>>
S2 == <<2>>
SettingsBodies == {S2}

\* A row whose updated_at is left at 0.
UserRowNeverUpdated(settings, created_at, updated_at) ==
    [settings |-> settings, created_at |-> created_at, updated_at |-> 0]

UserRow(settings, created_at, updated_at) ==
    [settings |-> settings, created_at |-> created_at, updated_at |-> updated_at]

(***************************************************************************)
(* DatabaseService::get_user_settings with migrate_user_data.  Each        *)
(* statement is a step and may fail.                                       *)
(***************************************************************************)
\* A return that turns a failed migration into an error.
DbGetRespSurfacing(l, failed, alone_t) ==
    IF failed THEN [op |-> "db_get", status |-> "err"]
    ELSE [op |-> "db_get", status |-> "some", settings |-> l.settings,
          etag |-> ToString(l.updated_at), source |-> "legacy",
          migration_failed |-> failed, alone |-> alone_t, before |-> l.before]

DbGetResp(l, failed, alone_t) ==
    [op |-> "db_get", status |-> "some", settings |-> l.settings,
     etag |-> ToString(l.updated_at), source |-> "legacy",
     migration_failed |-> failed, alone |-> alone_t, before |-> l.before]

\* query_settings(&hash_key)
DbGetCurrent(t, ok) ==
    /\ ~Active(t)
    /\ LET key == hash_user_id(Uid)
       IN  IF ~ok
           THEN /\ resp' = [op |-> "db_get", status |-> "err"]
                /\ UNCHANGED <<task, alone>>
           ELSE IF users[key] # NoRow
           THEN /\ resp' = [op |-> "db_get", status |-> "some",
                            settings |-> users[key].settings,
                            etag |-> ToString(users[key].updated_at),
                            source |-> "current"]
                /\ UNCHANGED <<task, alone>>
           ELSE IF get_legacy_key_if_different(Uid, key) = {}
           THEN /\ resp' = [op |-> "db_get", status |-> "none"]
                /\ UNCHANGED <<task, alone>>
           ELSE /\ task' = [task EXCEPT ![t] = [pc |-> "get_legacy", before |-> users]]
                /\ alone' = Begin(t)
                /\ resp' = NoResp
    /\ UNCHANGED <<now, data, written, users, hist>>

\* query_settings(&legacy_key)
DbGetLegacy(t, ok) ==
    /\ task[t].pc = "get_legacy"
    /\ LET key == legacy_hash_user_id(Uid)
       IN  IF ok /\ users[key] # NoRow
           THEN /\ task' = [task EXCEPT ![t] =
                              [pc |-> "migrate_created_at", before |-> task[t].before,
                               settings |-> users[key].settings,
                               updated_at |-> users[key].updated_at,
                               created_at |-> 0]]
                /\ resp' = NoResp
                /\ UNCHANGED alone
           ELSE /\ task' = [task EXCEPT ![t] = Idle]
                /\ alone' = End(t)
                /\ resp' = [op |-> "db_get", status |-> IF ok THEN "none" ELSE "err"]
    /\ UNCHANGED <<now, data, written, users, hist>>

\* migrate_user_data: SELECT created_at of the legacy row
MigrateCreatedAt(t, ok) ==
    /\ task[t].pc = "migrate_created_at"
    /\ LET l == task[t]
           key == legacy_hash_user_id(Uid)
       IN  IF ok
           THEN /\ task' = [task EXCEPT ![t] =
                              [l EXCEPT !.pc = "migrate_insert",
                                        !.created_at = IF users[key] # NoRow
                                                       THEN users[key].created_at
                                                       ELSE l.updated_at]]
                /\ resp' = NoResp
                /\ UNCHANGED alone
           ELSE /\ task' = [task EXCEPT ![t] = Idle]
                /\ alone' = End(t)
                /\ resp' = DbGetResp(l, TRUE, alone[t])
    /\ UNCHANGED <<now, data, written, users, hist>>

\* migrate_user_data: INSERT under the current key
MigrateInsert(t, ok) ==
    /\ task[t].pc = "migrate_insert"
    /\ LET l == task[t]
       IN  IF ok
           THEN /\ users' = [users EXCEPT ![hash_user_id(Uid)] =
                                UserRow(l.settings, l.created_at, l.updated_at)]
                /\ task' = [task EXCEPT ![t] = [l EXCEPT !.pc = "migrate_delete"]]
                /\ resp' = NoResp
                /\ UNCHANGED alone
           ELSE /\ task' = [task EXCEPT ![t] = Idle]
                /\ alone' = End(t)
                /\ resp' = DbGetResp(l, TRUE, alone[t])
                /\ UNCHANGED users
    /\ UNCHANGED <<now, data, written, hist>>

\* migrate_user_data: delete_legacy_data, then get_user_settings returns
MigrateDelete(t, ok) ==
    /\ task[t].pc = "migrate_delete"
    /\ users' = IF ok THEN [users EXCEPT ![legacy_hash_user_id(Uid)] = NoRow]
                ELSE users
    /\ task' = [task EXCEPT ![t] = Idle]
    /\ alone' = End(t)
    /\ resp' = DbGetResp(task[t], ~ok, alone[t])
    /\ UNCHANGED <<now, data, written, hist>>

(***************************************************************************)
(* DatabaseService::get_settings_metadata.                                 *)
(***************************************************************************)
DbHeadCurrent(t, ok) ==
    /\ ~Active(t)
    /\ LET key == hash_user_id(Uid)
       IN  IF ~ok
           THEN /\ resp' = [op |-> "db_head", status |-> "err"]
                /\ UNCHANGED task
           ELSE IF users[key] # NoRow
           THEN /\ resp' = [op |-> "db_head", status |-> "some",
                            etag |-> ToString(users[key].updated_at)]
                /\ UNCHANGED task
           ELSE IF get_legacy_key_if_different(Uid, key) = {}
           THEN /\ resp' = [op |-> "db_head", status |-> "none"]
                /\ UNCHANGED task
           ELSE /\ task' = [task EXCEPT ![t] = [pc |-> "head_legacy"]]
                /\ resp' = NoResp
    /\ UNCHANGED <<now, data, written, users, hist, alone>>

\* A metadata read that removes the legacy row it found.
DbHeadLegacyRemoving(t, ok) ==
    /\ task[t].pc = "head_legacy"
    /\ LET key == legacy_hash_user_id(Uid)
       IN  /\ resp' = IF ~ok THEN [op |-> "db_head", status |-> "err"]
                      ELSE IF users[key] # NoRow
                      THEN [op |-> "db_head", status |-> "some",
                            etag |-> ToString(users[key].updated_at)]
                      ELSE [op |-> "db_head", status |-> "none"]
           /\ users' = IF ok THEN [users EXCEPT ![key] = NoRow] ELSE users
    /\ task' = [task EXCEPT ![t] = Idle]
    /\ UNCHANGED <<now, data, written, hist, alone>>

DbHeadLegacy(t, ok) ==
    /\ task[t].pc = "head_legacy"
    /\ LET key == legacy_hash_user_id(Uid)
       IN  resp' = IF ~ok THEN [op |-> "db_head", status |-> "err"]
                   ELSE IF users[key] # NoRow
                   THEN [op |-> "db_head", status |-> "some",
                         etag |-> ToString(users[key].updated_at)]
                   ELSE [op |-> "db_head", status |-> "none"]
    /\ task' = [task EXCEPT ![t] = Idle]
    /\ UNCHANGED <<now, data, written, users, hist, alone>>

(***************************************************************************)
(* DatabaseService::save_user_settings and delete_user_settings, each      *)
(* followed by cleanup_legacy_data, whose failure is logged and dropped.   *)
(***************************************************************************)
DbSaveInsert(t, settings, ok) ==
    /\ ~Active(t)
    /\ IF ok
       THEN /\ users' = [users EXCEPT ![hash_user_id(Uid)] = UserRow(settings, now, now)]
            /\ task' = [task EXCEPT ![t] = [pc |-> "save_cleanup", now |-> now]]
            /\ alone' = Begin(t)
            /\ resp' = NoResp
       ELSE /\ resp' = [op |-> "db_put", status |-> "err"]
            /\ UNCHANGED <<users, task, alone>>
    /\ UNCHANGED <<now, data, written, hist>>

DbSaveCleanup(t, ok) ==
    /\ task[t].pc = "save_cleanup"
    /\ LET legacy == get_legacy_key_if_different(Uid, hash_user_id(Uid))
       IN  users' = IF ok THEN [k \in DOMAIN users |->
                                  IF k \in legacy THEN NoRow ELSE users[k]]
                    ELSE users
    /\ task' = [task EXCEPT ![t] = Idle]
    /\ alone' = End(t)
    /\ resp' = [op |-> "db_put", status |-> "ok", written |-> task[t].now]
    /\ UNCHANGED <<now, data, written, hist>>

DbDeleteCurrent(t, ok) ==
    /\ ~Active(t)
    /\ IF ok
       THEN /\ users' = [users EXCEPT ![hash_user_id(Uid)] = NoRow]
            /\ task' = [task EXCEPT ![t] = [pc |-> "delete_cleanup"]]
            /\ alone' = Begin(t)
            /\ resp' = NoResp
            /\ hist' = [hist EXCEPT !.deleted = TRUE]
       ELSE /\ resp' = [op |-> "db_delete", status |-> "err"]
            /\ UNCHANGED <<users, task, alone, hist>>
    /\ UNCHANGED <<now, data, written>>

DbDeleteCleanup(t, ok) ==
    /\ task[t].pc = "delete_cleanup"
    /\ LET legacy == get_legacy_key_if_different(Uid, hash_user_id(Uid))
       IN  users' = IF ok THEN [k \in DOMAIN users |->
                                  IF k \in legacy THEN NoRow ELSE users[k]]
                    ELSE users
    /\ task' = [task EXCEPT ![t] = Idle]
    /\ alone' = End(t)
    /\ resp' = [op |-> "db_delete", status |-> "ok"]
    /\ UNCHANGED <<now, data, written, hist>>

(***************************************************************************)
(* The handlers routed at /v1/settings (routes/v1/settings.rs): one        *)
(* statement each, on the CRC32 key only.                                  *)
(***************************************************************************)
SettingsKey(user_id) == <<"settings:", "crc32", user_id>>

head_settings(ok) ==
    /\ LET key == SettingsKey(Uid)
       IN  resp' = IF ~ok THEN [op |-> "HEAD", status |-> 500]
                   ELSE IF users[key] = NoRow THEN [op |-> "HEAD", status |-> 404]
                   ELSE [op |-> "HEAD", status |-> 204,
                         etag |-> ToString(users[key].updated_at)]
    /\ UNCHANGED <<now, data, written, users, hist, task, alone>>

get_settings(if_none_match, ok) ==
    /\ LET key == SettingsKey(Uid)
       IN  resp' = IF ~ok THEN [op |-> "GET", status |-> 500]
                   ELSE IF users[key] = NoRow THEN [op |-> "GET", status |-> 404]
                   ELSE IF if_none_match = ToString(users[key].updated_at)
                   THEN [op |-> "GET", status |-> 304]
                   ELSE [op |-> "GET", status |-> 200,
                         settings |-> users[key].settings,
                         etag |-> ToString(users[key].updated_at),
                         alone |-> \A t \in Tasks : ~Active(t),
                         before |-> users]
    /\ UNCHANGED <<now, data, written, users, hist, task, alone>>

\* The 200 response keeps the request body next to `written`, for reference.
put_settings(body, ctype, ok) ==
    /\ IF ctype # OctetStream
       THEN /\ resp' = [op |-> "PUT", status |-> 415]
            /\ UNCHANGED <<users, alone>>
       ELSE IF Len(body) > MaxBackupBytes
       THEN /\ resp' = [op |-> "PUT", status |-> 413]
            /\ UNCHANGED <<users, alone>>
       ELSE IF ~ok
       THEN /\ resp' = [op |-> "PUT", status |-> 500]
            /\ UNCHANGED <<users, alone>>
       ELSE /\ users' = [users EXCEPT ![SettingsKey(Uid)] = UserRow(body, now, now)]
            /\ alone' = Overlap
            /\ resp' = [op |-> "PUT", status |-> 200, written |-> now,
                         body |-> body]
    /\ UNCHANGED <<now, data, written, hist, task>>

delete_settings(ok) ==
    /\ IF ~ok
       THEN /\ resp' = [op |-> "DELETE", status |-> 500]
            /\ UNCHANGED <<users, alone, hist>>
       ELSE /\ users' = [users EXCEPT ![SettingsKey(Uid)] = NoRow]
            /\ alone' = Overlap
            /\ hist' = [hist EXCEPT !.deleted = TRUE]
            /\ resp' = [op |-> "DELETE", status |-> 204]
    /\ UNCHANGED <<now, data, written, task>>

(***************************************************************************)
(* The settings of one user under concurrent requests.  The user starts    *)
(* with no row or with a row under the legacy key only, written at or      *)
(* before the present.  hist keeps that row for reference and records      *)
(* whether a delete was ever issued.                                       *)
(***************************************************************************)
InitSettings ==
    /\ now \in 0..MaxTime
    /\ data = [k \in DataKeys |-> NoRow]
    /\ written = [k \in DataKeys |-> NoValue]
    /\ \E legacy \in {NoRow} \cup {UserRow(S1, 0, u) : u \in 0..now} :
          /\ users = [k \in UserKeys |->
                        IF k = legacy_hash_user_id(Uid) THEN legacy ELSE NoRow]
          /\ hist = [op |-> "settings", legacy |-> legacy, deleted |-> FALSE]
    /\ task = [t \in Tasks |-> Idle]
    /\ alone = [t \in Tasks |-> FALSE]
    /\ resp = NoResp

NextSettings ==
    \/ Tick
    \/ \E t \in Tasks, ok \in BOOLEAN : DbGetCurrent(t, ok)
    \/ \E t \in Tasks, ok \in BOOLEAN : DbGetLegacy(t, ok)
    \/ \E t \in Tasks, ok \in BOOLEAN : MigrateCreatedAt(t, ok)
    \/ \E t \in Tasks, ok \in BOOLEAN : MigrateInsert(t, ok)
    \/ \E t \in Tasks, ok \in BOOLEAN : MigrateDelete(t, ok)
    \/ \E t \in Tasks, ok \in BOOLEAN : DbHeadCurrent(t, ok)
    \/ \E t \in Tasks, ok \in BOOLEAN : DbHeadLegacy(t, ok)
    \/ \E t \in Tasks, s \in SettingsBodies, ok \in BOOLEAN : DbSaveInsert(t, s, ok)
    \/ \E t \in Tasks, ok \in BOOLEAN : DbSaveCleanup(t, ok)
    \/ \E t \in Tasks, ok \in BOOLEAN : DbDeleteCurrent(t, ok)
    \/ \E t \in Tasks, ok \in BOOLEAN : DbDeleteCleanup(t, ok)
    \/ \E ok \in BOOLEAN : head_settings(ok)
    \/ \E ok \in BOOLEAN : get_settings(NoHeader, ok)
    \/ \E s \in SettingsBodies, ok \in BOOLEAN : put_settings(s, OctetStream, ok)
    \/ \E ok \in BOOLEAN : delete_settings(ok)

SpecSettings == InitSettings /\ [][NextSettings]_vars

(***************************************************************************)
(* DELETE /v1: delete_all_user_data, the settings rows through             *)
(* DatabaseService::delete_user_settings and then every data row of the    *)
(* user through delete_all_data.                                           *)
(***************************************************************************)
DeleteAllUser(t, ok) ==
    /\ ~Active(t)
    /\ IF ok
       THEN /\ users' = [users EXCEPT ![hash_user_id(Uid)] = NoRow]
            /\ task' = [task EXCEPT ![t] = [pc |-> "delete_all_cleanup"]]
            /\ alone' = Begin(t)
            /\ resp' = NoResp
            /\ hist' = [hist EXCEPT !.deleted = TRUE]
       ELSE /\ resp' = [op |-> "DELETE /v1", status |-> 500]
            /\ UNCHANGED <<users, task, alone, hist>>
    /\ UNCHANGED <<now, data, written>>

DeleteAllCleanup(t, ok) ==
    /\ task[t].pc = "delete_all_cleanup"
    /\ LET legacy == get_legacy_key_if_different(Uid, hash_user_id(Uid))
       IN  users' = IF ok THEN [k \in DOMAIN users |->
                                  IF k \in legacy THEN NoRow ELSE users[k]]
                    ELSE users
    /\ task' = [task EXCEPT ![t] = [pc |-> "delete_all_data"]]
    /\ resp' = NoResp
    /\ UNCHANGED <<now, data, written, hist, alone>>

DeleteAllData(t, ok) ==
    /\ task[t].pc = "delete_all_data"
    /\ IF ok
       THEN /\ data' = [k \in DOMAIN data |-> NoRow]
            /\ written' = [k \in DOMAIN written |-> NoValue]
            /\ resp' = [op |-> "DELETE /v1", status |-> 204]
       ELSE /\ resp' = [op |-> "DELETE /v1", status |-> 500]
            /\ UNCHANGED <<data, written>>
    /\ task' = [task EXCEPT ![t] = Idle]
    /\ alone' = End(t)
    /\ UNCHANGED <<now, users, hist>>

(***************************************************************************)
(* One user's whole account: settings through the routed /v1/settings      *)
(* handlers, data through PUT /v2/data/{key}, and DELETE /v1.  The account *)
(* starts empty.                                                           *)
(***************************************************************************)
\* If-None-Match when sent: a timestamp as the ETag header carries it, or
\* the same in double quotes.
Quoted(str) == "\"" \o str \o "\""
IfNoneMatchValues ==
    {ToString(t) : t \in 0..MaxTime} \cup {Quoted(ToString(t)) : t \in 0..MaxTime}

InitAccount ==
    /\ now = 0
    /\ data = [k \in DataKeys |-> NoRow]
    /\ written = [k \in DataKeys |-> NoValue]
    /\ users = [k \in UserKeys |-> NoRow]
    /\ hist = [op |-> "settings", legacy |-> NoRow, deleted |-> FALSE]
    /\ task = [t \in Tasks |-> Idle]
    /\ alone = [t \in Tasks |-> FALSE]
    /\ resp = NoResp

NextAccount ==
    \/ Tick
    \/ \E k \in DataKeys : PutStart("t1", k, V5, OctetStream)
    \/ \E ok \in BOOLEAN : PutRead("t1", ok)
    \/ \E ok \in BOOLEAN : PutWrite("t1", ok)
    \/ \E s \in {S1, S2}, ok \in BOOLEAN : put_settings(s, OctetStream, ok)
    \/ \E ok \in BOOLEAN : get_settings(NoHeader, ok)
    \/ \E inm \in IfNoneMatchValues, ok \in BOOLEAN : get_settings(inm, ok)
    \/ \E ok \in BOOLEAN : delete_settings(ok)
    \/ \E ok \in BOOLEAN : DeleteAllUser("t2", ok)
    \/ \E ok \in BOOLEAN : DeleteAllCleanup("t2", ok)
    \/ \E ok \in BOOLEAN : DeleteAllData("t2", ok)

SpecAccount == InitAccount /\ [][NextAccount]_vars

(***************************************************************************)
(* Properties of the data service.                                         *)
(***************************************************************************)

\* C1: the version of a data row never decreases across writes while the
\* row is not deleted: in every step that leaves the row in place, its
\* version after is at least its version before.
VersionNeverDecreases ==
    [][\A k \in DataKeys :
          (data[k] # NoRow /\ data'[k] # NoRow)
              => data'[k].version >= data[k].version]_vars

\* C2: in the state right after a PUT returned 200, the sum of size_bytes
\* over the user's rows is at most the backup cap.
QuotaHoldsAfterSuccess ==
    (resp.op = "put" /\ resp.status = 200)
        => SumSizes(data, {k \in DataKeys : data[k] # NoRow}) <= MaxBackupBytes

\* C3: a GET that returns 200 returns the bytes of the last successful
\* write of the key, and a checksum that is the checksum of those bytes.
GetReturnsWhatWasPut ==
    (resp.op = "get" /\ resp.status = 200)
        => /\ resp.value = written[resp.key]
           /\ resp.checksum = compute_checksum(written[resp.key])

\* C4: created_at of a data row is constant once the row exists: every step
\* that leaves the row in place leaves its created_at unchanged.
CreatedAtConstant ==
    [][\A k \in DataKeys :
          (data[k] # NoRow /\ data'[k] # NoRow)
              => data'[k].created_at = data[k].created_at]_vars

\* C8: the quota-checked write reads the user's current total and the row
\* it replaces, computes new_total = total - existing_size + new_size, and
\* when new_total exceeds the cap answers 413 "Total storage limit exceeded"
\* leaving every row as it was; otherwise it upserts the row (or fails on
\* storage, leaving every row as it was).
QuotaCheckDecides ==
    [][\A t \in Tasks :
          /\ (task[t].pc = "put_read" /\ task'[t].pc = "put_write")
                => /\ task'[t].total =
                         SumSizes(data, {k \in DataKeys : data[k] # NoRow})
                   /\ task'[t].existing =
                         IF data[task[t].key] = NoRow THEN NoExisting
                         ELSE [version |-> data[task[t].key].version,
                               created_at |-> data[task[t].key].created_at,
                               size_bytes |-> data[task[t].key].size_bytes]
          /\ (task[t].pc = "put_write" /\ task'[t].pc = "idle")
                => LET l == task[t]
                       existing_size == IF l.existing = NoExisting THEN 0
                                        ELSE l.existing.size_bytes
                       new_total == l.total - existing_size + Len(l.body)
                   IN  IF new_total > MaxBackupBytes
                       THEN /\ resp'.status = 413
                            /\ resp'.error = "Total storage limit exceeded"
                            /\ data' = data
                       ELSE \/ /\ resp'.status = 500
                               /\ data' = data
                            \/ /\ resp'.status = 200
                               /\ data'[l.key].size_bytes = Len(l.body)
                               /\ data'[l.key].value = compress(l.body)
                               /\ \A k \in DataKeys \ {l.key} : data'[k] = data[k]]_vars

\* C8, its case: a PUT of a new key was rejected on the total while the
\* other key's row stands, and the new key has no row.
QuotaRejectedNewKey ==
    /\ resp.op = "put"
    /\ resp.status = 413
    /\ "error" \in DOMAIN resp
    /\ data[resp.key] = NoRow
    /\ \E k \in DataKeys : data[k] # NoRow

\* C9: a successful write that no other writing request and no delete
\* overlapped stores version 1 on an absent row and the stored version plus
\* one on a present row, and returns the version it stored; by PUT and by
\* sync alike.
SequentialVersions ==
    [][\A t \in Tasks :
          /\ (task[t].pc = "put_write" /\ task'[t].pc = "idle"
              /\ alone[t] /\ resp'.status = 200)
                => LET k == task[t].key
                   IN  /\ data'[k].version =
                             IF data[k] = NoRow THEN 1 ELSE data[k].version + 1
                       /\ resp'.version = data'[k].version
          /\ (task[t].pc = "sync_save" /\ task'[t] # task[t] /\ alone[t])
                => \A k \in DataKeys :
                      data'[k] # data[k]
                          => data'[k].version =
                                IF data[k] = NoRow THEN 1 ELSE data[k].version + 1
          /\ (task[t].pc = "sync_respond" /\ task'[t].pc = "idle" /\ alone[t])
                => \A i \in DOMAIN resp'.uploaded :
                      resp'.uploaded[i].version = data[resp'.uploaded[i].key].version]_vars

\* C9, its case: a sync that nothing overlapped uploaded a key that already
\* had a row and returned version 2 for it.
SequentialSyncSecondWrite ==
    /\ resp.op = "sync"
    /\ resp.status = 200
    /\ resp.alone
    /\ Len(resp.uploaded) = 1
    /\ resp.uploaded[1].version = 2
    /\ data[resp.uploaded[1].key].version = 2

\* C10: every stored data row has created_at <= updated_at and version >= 1.
RowTimesOrdered ==
    \A k \in DataKeys :
        data[k] # NoRow
            => /\ data[k].created_at <= data[k].updated_at
               /\ data[k].version >= 1

(***************************************************************************)
(* Properties of the settings service.                                     *)
(***************************************************************************)

\* C5: after a successful read of the settings of a user who had a row
\* under the legacy key only, with no other request overlapping and no
\* migration statement failing, the row under the current key equals the
\* legacy row the user had (settings, created_at, updated_at), the legacy
\* row is absent, and the read returned the legacy settings with ETag equal
\* to the legacy updated_at.
MigratingReadMovesRow ==
    LET current == hash_user_id(Uid)
        legacy == legacy_hash_user_id(Uid)
    IN  (/\ "before" \in DOMAIN resp
         /\ resp.alone
         /\ resp.before[current] = NoRow
         /\ resp.before[legacy] # NoRow
         /\ resp.op = "db_get" => ~resp.migration_failed)
            => /\ users[current] = resp.before[legacy]
               /\ users[legacy] = NoRow
               /\ resp.settings = resp.before[legacy].settings
               /\ resp.etag = ToString(resp.before[legacy].updated_at)

\* C6: in the state right after a settings write (put or delete) returned
\* success, at most one of the user's legacy row and current row exists.
AtMostOneRowAfterWrite ==
    (\/ resp.op \in {"db_put", "db_delete"} /\ resp.status = "ok"
     \/ resp.op = "PUT" /\ resp.status = 200
     \/ resp.op = "DELETE" /\ resp.status = 204)
        => ~(/\ users[legacy_hash_user_id(Uid)] # NoRow
             /\ users[hash_user_id(Uid)] # NoRow)

\* C7: for a user who started with a legacy row only, whenever no request
\* is in flight, no delete was ever issued, the legacy row is gone and a
\* current row exists, the current row's created_at is the created_at the
\* legacy row had at the start.
MigrationKeepsCreatedAt ==
    (/\ hist.op = "settings"
     /\ hist.legacy # NoRow
     /\ ~hist.deleted
     /\ \A t \in Tasks : ~Active(t)
     /\ users[legacy_hash_user_id(Uid)] = NoRow
     /\ users[hash_user_id(Uid)] # NoRow)
        => users[hash_user_id(Uid)].created_at = hist.legacy.created_at

(***************************************************************************)
(* Properties of delta sync.                                               *)
(***************************************************************************)

\* C11: when a sync answers, the keys it selected for download are exactly
\* the keys of the server manifest for which the client manifest does not
\* hold an entry with version >= the server's and the server's checksum: a
\* server key the client lacks is selected, every key in `downloads` is a
\* selected key of the server manifest, all selected keys are returned
\* when the fetch succeeded and nothing overlapped, and all are reported
\* "Failed to download" when the fetch failed.
DownloadSelection ==
    [][\A t \in Tasks :
          (task[t].pc = "sync_respond" /\ task'[t].pc = "idle")
              => LET S == task[t].manifest
                     C == task[t].cm
                     selected ==
                         {k \in DOMAIN S :
                             ~(/\ k \in DOMAIN C
                               /\ C[k].version >= S[k].version
                               /\ C[k].checksum = S[k].checksum)}
                 IN  /\ \A k \in DOMAIN S : k \notin DOMAIN C => k \in selected
                     /\ DOMAIN resp'.downloads \subseteq selected
                     /\ (~task[t].download_failed /\ alone[t])
                            => DOMAIN resp'.downloads = selected
                     /\ task[t].download_failed
                            => resp'.download_errors =
                                  {[key |-> k, error |-> "Failed to download"] :
                                      k \in selected}
                     /\ ~task[t].download_failed => resp'.download_errors = {}]_vars

\* C11, its case: a sync with nothing uploaded answered with a server
\* manifest holding the first key and with no download and no error: the
\* client held the key at the server's version and checksum.
DownloadSkippedHeldKey ==
    /\ resp.op = "sync"
    /\ resp.status = 200
    /\ KeyA \in DOMAIN resp.server_manifest
    /\ resp.downloads = <<>>
    /\ resp.download_errors = {}
    /\ resp.uploaded = <<>>
    /\ resp.errors = <<>>

\* C12: an upload that passed key, size and checksum validation is dropped
\* exactly when the server manifest has its key and the client manifest has
\* no entry for the key or declares a version <= the server's.  No upsert
\* of the sync writes a dominated key; a dominated key has no entry in
\* `uploaded` and, unless another upload of the key failed validation, none
\* in `errors`; when the client's entry is missing or older and the fetch
\* succeeded with nothing overlapping, the key is in `downloads` with the
\* server's version.  A validated upload that is not dominated is answered
\* in `uploaded` or in `errors`, unless the batch persist failed.
DominatedUploadDropped ==
    [][\A t \in Tasks :
          LET l == task[t]
              Dom(k) == /\ k \in DOMAIN l.manifest
                        /\ (k \notin DOMAIN l.cm
                            \/ l.cm[k].version <= l.manifest[k].version)
              Passes(u) == /\ validate_key(u.key) = "Ok"
                           /\ Len(u.value) <= MaxKeySizeBytes
                           /\ compute_checksum(u.value) = u.checksum
              KeysOf(list) == {list[j].key : j \in 1..Len(list)}
          IN  /\ (l.pc = "sync_save" /\ task'[t] # l)
                    => \A k \in DOMAIN data : data'[k] # data[k] => ~Dom(k)
              /\ (l.pc = "sync_respond" /\ task'[t].pc = "idle")
                    => \A i \in 1..Len(l.uploads) :
                          LET u == l.uploads[i]
                              k == u.key
                          IN  /\ (Passes(u) /\ Dom(k))
                                    => /\ k \notin KeysOf(resp'.uploaded)
                                       /\ (\A j \in 1..Len(l.uploads) :
                                              l.uploads[j].key = k => Passes(l.uploads[j]))
                                              => k \notin KeysOf(resp'.errors)
                                       /\ (/\ (k \notin DOMAIN l.cm
                                               \/ l.cm[k].version < l.manifest[k].version)
                                           /\ ~l.download_failed
                                           /\ alone[t])
                                              => /\ k \in DOMAIN resp'.downloads
                                                 /\ resp'.downloads[k].version =
                                                        l.manifest[k].version
                              /\ (Passes(u) /\ ~Dom(k))
                                    => \/ k \in KeysOf(resp'.uploaded)
                                       \/ k \in KeysOf(resp'.errors)
                                       \/ l.batch_failed]_vars

\* C12, its case: the server holds the first key at a version above the
\* one the client declares, the client uploads another body for it, and the
\* sync is about to answer: the row still holds the old body at the server's
\* version and the key was fetched for download.
DominatedUploadPending ==
    /\ task["t1"].pc = "sync_respond"
    /\ task["t1"].uploads = <<Upload(KeyA, V6)>>
    /\ KeyA \in DOMAIN task["t1"].manifest
    /\ KeyA \in DOMAIN task["t1"].cm
    /\ task["t1"].cm[KeyA].version < task["t1"].manifest[KeyA].version
    /\ KeyA \in DOMAIN task["t1"].downloads
    /\ data[KeyA].version = task["t1"].manifest[KeyA].version
    /\ written[KeyA] = V5

\* C13, as stated: every upload whose declared checksum differs from the
\* checksum recomputed over its value is answered in `errors` with
\* "Checksum mismatch", is not in `uploaded`, and is not written.
ChecksumMismatchAlwaysReported ==
    [][\A t \in Tasks :
          LET l == task[t]
              KeysOf(list) == {list[j].key : j \in 1..Len(list)}
              Mismatch(u) == compute_checksum(u.value) # u.checksum
          IN  /\ (l.pc = "sync_save" /\ task'[t] # l)
                    => \A k \in DOMAIN data :
                          data'[k] # data[k]
                             => data'[k].checksum = compute_checksum(written'[k])
              /\ (l.pc = "sync_respond" /\ task'[t].pc = "idle")
                    => \A i \in 1..Len(l.uploads) :
                          LET u == l.uploads[i]
                          IN  Mismatch(u)
                                 => /\ \E j \in 1..Len(resp'.errors) :
                                          resp'.errors[j] =
                                             [key |-> u.key, error |-> "Checksum mismatch"]
                                    /\ (\A j \in 1..Len(l.uploads) :
                                           l.uploads[j].key = u.key
                                              => Mismatch(l.uploads[j]))
                                          => u.key \notin KeysOf(resp'.uploaded)]_vars

\* C13: every upload that passed the key and the size validation and whose
\* declared checksum differs from the checksum recomputed over its value is
\* answered in `errors` with "Checksum mismatch", is not in `uploaded`
\* (unless another upload of the same key was accepted), and is not
\* written: every row a sync writes carries the checksum of its own value.
ChecksumMismatchReported ==
    [][\A t \in Tasks :
          LET l == task[t]
              KeysOf(list) == {list[j].key : j \in 1..Len(list)}
              Mismatch(u) == compute_checksum(u.value) # u.checksum
          IN  /\ (l.pc = "sync_save" /\ task'[t] # l)
                    => \A k \in DOMAIN data :
                          data'[k] # data[k]
                             => data'[k].checksum = compute_checksum(written'[k])
              /\ (l.pc = "sync_respond" /\ task'[t].pc = "idle")
                    => \A i \in 1..Len(l.uploads) :
                          LET u == l.uploads[i]
                          IN  (/\ validate_key(u.key) = "Ok"
                               /\ Len(u.value) <= MaxKeySizeBytes
                               /\ Mismatch(u))
                                 => /\ \E j \in 1..Len(resp'.errors) :
                                          resp'.errors[j] =
                                             [key |-> u.key, error |-> "Checksum mismatch"]
                                    /\ (\A j \in 1..Len(l.uploads) :
                                           l.uploads[j].key = u.key
                                              => Mismatch(l.uploads[j]))
                                          => u.key \notin KeysOf(resp'.uploaded)]_vars

\* C13, its case: a sync answered "Checksum mismatch" for the first key,
\* uploaded nothing, and the key has no row.
ChecksumMismatchAnswered ==
    /\ resp.op = "sync"
    /\ resp.status = 200
    /\ resp.errors = <<[key |-> KeyA, error |-> "Checksum mismatch"]>>
    /\ resp.uploaded = <<>>
    /\ data[KeyA] = NoRow

\* C14: delta-sync idempotence.  When a sync that ran with nothing
\* overlapping returned server_manifest M and the very next step starts a
\* sync with client_manifest = M and no uploads, that second sync selects
\* no key for download: it goes straight to its response, whose `downloads`
\* and `errors` are then empty (a selected key is answered in `downloads`
\* or, when the fetch fails, in `errors`).
SyncAgainSelectsNothing ==
    [][\A t \in Tasks :
          (/\ resp.op = "sync"
           /\ resp.status = 200
           /\ resp.alone
           /\ task[t].pc = "idle"
           /\ task'[t].pc # "idle"
           /\ task'[t].cm = ClientManifestOf(resp.server_manifest)
           /\ task'[t].uploads = <<>>)
             => /\ task'[t].pc = "sync_respond"
                /\ {k \in DOMAIN task'[t].manifest :
                      ~(/\ k \in DOMAIN task'[t].cm
                        /\ task'[t].cm[k].version >= task'[t].manifest[k].version
                        /\ task'[t].cm[k].checksum = task'[t].manifest[k].checksum)}
                   = {}]_vars

\* C15: with the datastore disabled, no key beginning with `dataStore/` is
\* read, written or deleted: no such key ever has a row, GET, PUT and
\* DELETE of such a key answer 403, and no sync answers such a key in
\* `uploaded` or `downloads`.
DatastoreKeysUntouched ==
    ~DatastoreEnabled =>
        /\ \A k \in DOMAIN data : IsDataStoreKey(k) => data[k] = NoRow
        /\ (resp.op \in {"get", "put", "delete"} /\ "key" \in DOMAIN resp
            /\ IsDataStoreKey(resp.key)) => resp.status = 403
        /\ (resp.op = "sync" /\ resp.status = 200)
              => /\ \A k \in DOMAIN resp.downloads : ~IsDataStoreKey(k)
                 /\ \A i \in 1..Len(resp.uploaded) :
                       ~IsDataStoreKey(resp.uploaded[i].key)

(***************************************************************************)
(* Properties of the account.                                              *)
(***************************************************************************)

\* C16: after DELETE /v1/settings answered 204 with no request in flight,
\* the user has no row in `users` under the current or the legacy key and
\* no row in `data`.
DeleteSettingsRemovesAll ==
    (/\ resp.op = "DELETE"
     /\ resp.status = 204
     /\ \A t \in Tasks : ~Active(t))
        => /\ users[hash_user_id(Uid)] = NoRow
           /\ users[legacy_hash_user_id(Uid)] = NoRow
           /\ \A k \in DOMAIN data : data[k] = NoRow

\* C17: settings round trip.  When PUT /v1/settings with body b answered
\* 200 {written: T} and the next request is GET /v1/settings, a GET whose
\* read succeeds answers 304 with no body and no ETag if its If-None-Match
\* is T, and otherwise 200 with exactly b and ETag T.
SettingsRoundTrip ==
    [][\A ok \in BOOLEAN :
          /\ (/\ resp.op = "PUT"
              /\ resp.status = 200
              /\ get_settings(NoHeader, ok))
                => IF ~ok
                   THEN resp'.status = 500
                   ELSE /\ resp'.status = 200
                        /\ resp'.settings = resp.body
                        /\ resp'.etag = ToString(resp.written)
          /\ \A inm \in IfNoneMatchValues :
                (/\ resp.op = "PUT"
                 /\ resp.status = 200
                 /\ get_settings(inm, ok))
                   => IF ~ok
                      THEN resp'.status = 500
                      ELSE IF inm = ToString(resp.written)
                      THEN resp' = [op |-> "GET", status |-> 304]
                      ELSE /\ resp'.status = 200
                           /\ resp'.settings = resp.body
                           /\ resp'.etag = ToString(resp.written)]_vars

\* C17, its case: the second body was put at the last instant and a GET
\* returned it with that instant as ETag.
SettingsReadBack ==
    /\ resp.op = "GET"
    /\ resp.status = 200
    /\ resp.settings = S2
    /\ resp.etag = ToString(MaxTime)
    /\ users[SettingsKey(Uid)] = UserRow(S2, MaxTime, MaxTime)

(***************************************************************************)
(* The auth middleware (middleware/auth.rs).  A token on the wire is a     *)
(* sequence of base64 symbols: 0..63 for the alphabet, Pad (64) for '=',   *)
(* and NotBase64 (65) for any other character.  Text is a sequence of      *)
(* bytes.                                                                  *)
(***************************************************************************)
Pad == 64
NotBase64 == 65
Colon == 58

\* BASE64_STANDARD.encode: three bytes to four symbols, '=' padding.
RECURSIVE Base64Encode(_)
Base64Encode(bytes) ==
    IF bytes = <<>> THEN <<>>
    ELSE IF Len(bytes) = 1
    THEN <<bytes[1] \div 4, (bytes[1] % 4) * 16, Pad, Pad>>
    ELSE IF Len(bytes) = 2
    THEN LET n == (bytes[1] * 256 + bytes[2]) * 4
         IN  <<n \div 4096, (n \div 64) % 64, n % 64, Pad>>
    ELSE LET n == bytes[1] * 65536 + bytes[2] * 256 + bytes[3]
         IN  <<n \div 262144, (n \div 4096) % 64, (n \div 64) % 64, n % 64>>
             \o Base64Encode(SubSeq(bytes, 4, Len(bytes)))

\* BASE64_STANDARD.decode: canonical padding required, no stray symbol, no
\* nonzero trailing bits.  The result is [ok, bytes].
RECURSIVE Base64Decode(_)
Base64Decode(token) ==
    LET Err == [ok |-> FALSE, bytes |-> <<>>]
        IsSym(x) == x # Pad /\ x # NotBase64
    IN  IF token = <<>> THEN [ok |-> TRUE, bytes |-> <<>>]
        ELSE IF Len(token) < 4 THEN Err
        ELSE LET a == token[1]
                 b == token[2]
                 c == token[3]
                 d == token[4]
                 rest == SubSeq(token, 5, Len(token))
             IN  IF ~IsSym(a) \/ ~IsSym(b) THEN Err
                 ELSE IF c = Pad
                 THEN IF d = Pad /\ rest = <<>> /\ b % 16 = 0
                      THEN [ok |-> TRUE, bytes |-> <<a * 4 + b \div 16>>]
                      ELSE Err
                 ELSE IF ~IsSym(c) THEN Err
                 ELSE IF d = Pad
                 THEN IF rest = <<>> /\ c % 4 = 0
                      THEN [ok |-> TRUE,
                            bytes |-> <<a * 4 + b \div 16,
                                        (b % 16) * 16 + c \div 4>>]
                      ELSE Err
                 ELSE IF ~IsSym(d) THEN Err
                 ELSE LET tail == Base64Decode(rest)
                      IN  IF ~tail.ok THEN Err
                          ELSE [ok |-> TRUE,
                                bytes |-> <<a * 4 + b \div 16,
                                            (b % 16) * 16 + c \div 4,
                                            (c % 4) * 64 + d>> \o tail.bytes]

\* String::from_utf8 on the bytes in use here: ASCII is valid, 0xFF never is.
Utf8Valid(bytes) == \A i \in 1..Len(bytes) : bytes[i] < 128

\* str::split(':'): one more part than there are colons.
RECURSIVE SplitColon(_)
SplitColon(bytes) ==
    IF \A i \in 1..Len(bytes) : bytes[i] # Colon THEN <<bytes>>
    ELSE LET i == CHOOSE j \in 1..Len(bytes) :
                     bytes[j] = Colon /\ \A m \in 1..(j - 1) : bytes[m] # Colon
         IN  <<SubSeq(bytes, 1, i - 1)>>
                \o SplitColon(SubSeq(bytes, i + 1, Len(bytes)))

\* Lowercase hex digit of a nibble.
HexDigit(n) == IF n < 10 THEN 48 + n ELSE 87 + n

\* A one-byte digest standing for SHA-256, and a one-nibble checksum
\* standing for CRC32.
RECURSIVE Digest(_, _)
Digest(bytes, h) ==
    IF bytes = <<>> THEN h
    ELSE Digest(Tail(bytes), (h * 31 + Head(bytes)) % 256)

RECURSIVE Crc(_, _)
Crc(bytes, h) ==
    IF bytes = <<>> THEN h
    ELSE Crc(Tail(bytes), (h * 3 + Head(bytes)) % 16)

SecretPrefix == <<115, 101, 99, 114, 101, 116, 58>>

\* sha256::get_user_secret: hex of the digest of "secret:" ++ user_id.
get_user_secret(user_id) ==
    LET d == Digest(SecretPrefix \o user_id, 7)
    IN  <<HexDigit(d \div 16), HexDigit(d % 16)>>

\* legacy::get_user_secret: the CRC of user_id in hex.
legacy_get_user_secret(user_id) == <<HexDigit(Crc(user_id, 0))>>

\* verify_token: [ok, user_id].
verify_token(token) ==
    LET Err == [ok |-> FALSE, user_id |-> <<>>]
        decoded == Base64Decode(token)
    IN  IF ~decoded.ok THEN Err
        ELSE IF ~Utf8Valid(decoded.bytes) THEN Err
        ELSE LET parts == SplitColon(decoded.bytes)
             IN  IF Len(parts) # 2 THEN Err
                 ELSE IF parts[1] = get_user_secret(parts[2])
                 THEN [ok |-> TRUE, user_id |-> parts[2]]
                 ELSE IF parts[1] = legacy_get_user_secret(parts[2])
                 THEN [ok |-> TRUE, user_id |-> parts[2]]
                 ELSE Err

\* The Authorization header: absent, or a token with or without "Bearer ".
NoAuthHeader == [present |-> FALSE, bearer |-> FALSE, token |-> <<>>]
AuthHeader(bearer, token) == [present |-> TRUE, bearer |-> bearer, token |-> token]

\* auth_middleware: 401, or the handler runs with the user id attached.
auth_middleware(header) ==
    IF ~header.present
    THEN [op |-> "auth", status |-> 401, handler_ran |-> FALSE]
    ELSE LET v == verify_token(header.token)
         IN  IF v.ok
             THEN [op |-> "auth", status |-> 200, handler_ran |-> TRUE,
                   user_id |-> v.user_id]
             ELSE [op |-> "auth", status |-> 401, handler_ran |-> FALSE]

\* The requests: tokens built as base64(s ++ ":" ++ uid) for user ids of up
\* to MaxUidLen characters, colons included, and for the right secrets, a
\* wrong one, an empty one, one with a colon in it and one that is not
\* UTF-8; and tokens that are no such thing.
MaxUidLen == 2
UidBytes == {50, 52, Colon}
RECURSIVE Strings(_, _)
Strings(alphabet, n) ==
    IF n = 0 THEN {<<>>}
    ELSE LET shorter == Strings(alphabet, n - 1)
         IN  shorter \cup {Append(w, c) : w \in shorter, c \in alphabet}
Uids == Strings(UidBytes, MaxUidLen)
Secrets(uid) ==
    {get_user_secret(uid), legacy_get_user_secret(uid), <<122>>, <<>>,
     <<Colon>> \o get_user_secret(uid), <<255>>}
BuiltRequests ==
    {[kind |-> "built", secret |-> s, uid |-> uid,
      header |-> AuthHeader(b, Base64Encode(s \o <<Colon>> \o uid))] :
        s \in UNION {Secrets(u) : u \in Uids}, uid \in Uids, b \in BOOLEAN}
OtherTokens ==
    {Base64Encode(get_user_secret(<<52>>) \o <<52>>),
     Base64Encode(<<52>>),
     <<>>,
     <<13, 13>>,
     <<13, 13, 13, 13, 13>>,
     <<13, 13, NotBase64, 13>>,
     <<13, Pad, 13, 13>>,
     <<13, 13, Pad, 13>>,
     <<13, 17, Pad, Pad>>,
     <<Pad, Pad, Pad, Pad>>}
OtherRequests ==
    {[kind |-> "other", secret |-> <<>>, uid |-> <<>>,
      header |-> AuthHeader(b, tok)] : tok \in OtherTokens, b \in BOOLEAN}
        \cup {[kind |-> "other", secret |-> <<>>, uid |-> <<>>,
                header |-> NoAuthHeader]}
AuthRequests == BuiltRequests \cup OtherRequests

\* A request arrives; the middleware answers it.
AuthArrive(req) ==
    /\ hist' = [op |-> "auth", req |-> req, answered |-> FALSE]
    /\ resp' = NoResp
    /\ UNCHANGED <<now, data, written, users, task, alone>>

AuthAnswer ==
    /\ hist.op = "auth"
    /\ ~hist.answered
    /\ hist' = [hist EXCEPT !.answered = TRUE]
    /\ resp' = auth_middleware(hist.req.header)
    /\ UNCHANGED <<now, data, written, users, task, alone>>

InitAuth ==
    /\ now = 0
    /\ data = [k \in DataKeys |-> NoRow]
    /\ written = [k \in DataKeys |-> NoValue]
    /\ users = NoUsers
    /\ hist = [op |-> "none"]
    /\ task = [t \in Tasks |-> Idle]
    /\ alone = [t \in Tasks |-> FALSE]
    /\ resp = NoResp

NextAuth ==
    \/ \E req \in AuthRequests : AuthArrive(req)
    \/ AuthAnswer

SpecAuth == InitAuth /\ [][NextAuth]_vars

(***************************************************************************)
(* Properties of the auth middleware.                                      *)
(***************************************************************************)

\* C18: the token base64(s ++ ":" ++ uid) is authenticated as uid if and
\* only if s is the secret or the legacy secret of uid, for every uid and
\* every s; a token that is not authenticated is answered 401 without the
\* handler running, and so is every token not built that way.
TokenAuthenticatesOwner ==
    (resp.op = "auth" /\ hist.op = "auth" /\ hist.answered)
       => LET req == hist.req
          IN  /\ resp.handler_ran \/ (resp.status = 401 /\ ~resp.handler_ran)
              /\ req.kind = "other" => ~resp.handler_ran
              /\ req.kind = "built"
                    => ((resp.handler_ran /\ resp.user_id = req.uid)
                          <=> (\/ req.secret = get_user_secret(req.uid)
                               \/ req.secret = legacy_get_user_secret(req.uid)))

(***************************************************************************)
(* The health-check task of main: after each sleep one health check, a     *)
(* counter of consecutive failures, and the exit.  hist keeps the counter, *)
(* whether the process has exited, and the outcomes of the checks so far.  *)
(***************************************************************************)
MAX_CONSECUTIVE_FAILURES == 3
MaxChecks == 7

\* A success that leaves the counter as it is.
failures_kept(consecutive_failures) == consecutive_failures

\* Ok(_): the counter goes back to 0.
failures_after_success(consecutive_failures) ==
    IF consecutive_failures > 0 THEN 0 ELSE consecutive_failures

\* Err(e): consecutive_failures += 1.
failures_after_failure(consecutive_failures) == consecutive_failures + 1

HealthCheck(ok) ==
    /\ hist.op = "health"
    /\ ~hist.exited
    /\ Len(hist.log) < MaxChecks
    /\ LET c == IF ok THEN failures_after_success(hist.consecutive_failures)
                ELSE failures_after_failure(hist.consecutive_failures)
       IN  hist' = [op |-> "health",
                    consecutive_failures |-> c,
                    exited |-> ~ok /\ c >= MAX_CONSECUTIVE_FAILURES,
                    log |-> Append(hist.log, ok)]
    /\ UNCHANGED <<now, data, written, users, task, alone, resp>>

InitHealth ==
    /\ now = 0
    /\ data = [k \in DataKeys |-> NoRow]
    /\ written = [k \in DataKeys |-> NoValue]
    /\ users = NoUsers
    /\ hist = [op |-> "health", consecutive_failures |-> 0, exited |-> FALSE,
               log |-> <<>>]
    /\ task = [t \in Tasks |-> Idle]
    /\ alone = [t \in Tasks |-> FALSE]
    /\ resp = NoResp

NextHealth == \E ok \in BOOLEAN : HealthCheck(ok)

SpecHealth == InitHealth /\ [][NextHealth]_vars

(***************************************************************************)
(* Properties of the health probe.                                         *)
(***************************************************************************)

\* C19: the probe has exited the process exactly when the last 3 checks
\* failed; the counter is the number of failures since the last success
\* (0 right after a success) and never exceeds 3; and no check follows 3
\* failures in a row.
ExitAfterThreeFailures ==
    hist.op = "health" =>
        LET log == hist.log
            n == Len(log)
            Failed(i, j) == \A m \in i..j : ~log[m]
            run == CHOOSE r \in 0..n :
                      /\ Failed(n - r + 1, n)
                      /\ (r < n => log[n - r])
        IN  /\ hist.consecutive_failures = run
            /\ hist.consecutive_failures <= 3
            /\ (n > 0 /\ log[n]) => hist.consecutive_failures = 0
            /\ hist.exited <=> (n >= 3 /\ Failed(n - 2, n))
            /\ \A i \in 1..(n - 2) : Failed(i, i + 2) => i + 2 = n

\* C19, its case: two failures, a recovery, then three failures in a row
\* and the exit.
ExitedAfterRecovery ==
    /\ hist.op = "health"
    /\ hist.exited
    /\ hist.log = <<FALSE, FALSE, TRUE, FALSE, FALSE, FALSE>>

(***************************************************************************)
(* Properties of DatabaseService's legacy handling.                        *)
(***************************************************************************)

\* C20: migration and cleanup failures are not surfaced.  A get that found
\* a legacy row returns success with that row's settings and updated_at
\* whichever statement of the migration fails or succeeds; a put and a
\* delete whose current-key statement succeeded return success whether the
\* legacy cleanup delete fails or not.
LegacyFailuresNotSurfaced ==
    [][\A t \in Tasks :
          LET l == task[t]
              legacy == legacy_hash_user_id(Uid)
          IN  /\ (l.pc = "get_legacy" /\ task'[t].pc = "migrate_created_at")
                    => /\ task'[t].settings = users[legacy].settings
                       /\ task'[t].updated_at = users[legacy].updated_at
              /\ (l.pc = "get_legacy" /\ task'[t].pc = "idle" /\ users[legacy] # NoRow)
                    => resp' = [op |-> "db_get", status |-> "err"]
              /\ (l.pc \in {"migrate_created_at", "migrate_insert", "migrate_delete"}
                  /\ task'[t] # l)
                    => /\ l.pc = "migrate_delete" => task'[t].pc = "idle"
                       /\ task'[t].pc = "idle"
                             => /\ resp'.op = "db_get"
                                /\ resp'.status = "some"
                                /\ resp'.settings = l.settings
                                /\ resp'.etag = ToString(l.updated_at)
              /\ (l.pc = "save_cleanup" /\ task'[t] # l)
                    => /\ task'[t].pc = "idle"
                       /\ resp' = [op |-> "db_put", status |-> "ok", written |-> l.now]
              /\ (l.pc = "delete_cleanup" /\ task'[t] # l)
                    => /\ task'[t].pc = "idle"
                       /\ resp' = [op |-> "db_delete", status |-> "ok"]]_vars

\* C20, its case: a get returned the legacy row's settings although its
\* migration failed, and the legacy row is still there.
FailedMigrationStillAnswered ==
    /\ resp.op = "db_get"
    /\ resp.status = "some"
    /\ resp.source = "legacy"
    /\ resp.migration_failed
    /\ resp.settings = S1
    /\ users[legacy_hash_user_id(Uid)] # NoRow

(***************************************************************************)
(* Further properties of delta sync.                                       *)
(***************************************************************************)

Rep(b, n) == [i \in 1..n |-> b]
EdgeBytes ==
    {45, 46, 47, 48, 57, 58, 64, 65, 90, 91, 95, 96, 97, 122, 123, 32, 44, 200}
LongestKey == Rep(97, MAX_KEY_NAME_LEN)
EdgeKeys ==
    {<<>>, LongestKey, Rep(97, MAX_KEY_NAME_LEN + 1), Rep(58, MAX_KEY_NAME_LEN + 1)}
        \cup {<<b>> : b \in EdgeBytes}
        \cup {<<97, b>> : b \in {47, 58, 200}}
StoredEdgeKeys == {k \in EdgeKeys : validate_key(k) = "Ok"}
PutEdgeKeys == {KeyA, LongestKey} \cup (EdgeKeys \ StoredEdgeKeys)

InitKeys ==
    /\ now = 0
    /\ data = [k \in StoredEdgeKeys |-> NoRow]
    /\ written = [k \in StoredEdgeKeys |-> NoValue]
    /\ users = NoUsers
    /\ hist = [op |-> "none"]
    /\ task = [t \in Tasks |-> Idle]
    /\ alone = [t \in Tasks |-> FALSE]
    /\ resp = NoResp

NextKeys ==
    \/ \E k \in PutEdgeKeys : PutStart("t1", k, V5, OctetStream)
    \/ \E ok \in BOOLEAN : PutRead("t1", ok)
    \/ \E ok \in BOOLEAN : PutWrite("t1", ok)
    \/ \E k \in EdgeKeys, ok \in BOOLEAN : GetData(k, NoHeader, ok)
    \/ \E k \in EdgeKeys, ok \in BOOLEAN : DeleteData(k, ok)

SpecKeys == InitKeys /\ [][NextKeys]_vars

(***************************************************************************)
(* Properties of the key validator.                                        *)
(***************************************************************************)

\* C22: validate_key answers Empty iff the key has length 0, otherwise
\* TooLong iff it is longer than 256 bytes, otherwise InvalidChars iff it
\* has a byte outside letters, digits, '_', '-', '.', '/', and accepts every
\* other key; a data handler answers 400 exactly for the rejected keys, and
\* then no row and no request in flight changes, whether storage works or
\* not.
KeyValidationDecides ==
    [][(resp'.op \in {"get", "put", "delete"} /\ "key" \in DOMAIN resp')
          => LET k == resp'.key
                 Letter(b) == b \in 65..90 \/ b \in 97..122
                 Digit(b) == b \in 48..57
                 Fine(b) == Letter(b) \/ Digit(b) \/ b \in {95, 45, 46, 47}
                 kind == IF Len(k) = 0 THEN "Empty"
                         ELSE IF Len(k) > 256 THEN "TooLong"
                         ELSE IF \E i \in 1..Len(k) : ~Fine(k[i]) THEN "InvalidChars"
                         ELSE "Ok"
             IN  /\ validate_key(k) = kind
                 /\ resp'.status = 400 <=> kind # "Ok"
                 /\ resp'.status = 400
                       => /\ data' = data
                          /\ written' = written
                          /\ task' = task]_vars

\* C22, its case: a PUT on the key of 256 bytes was accepted and stored.
LongestKeyStored ==
    /\ resp.op = "put"
    /\ resp.status = 200
    /\ Len(resp.key) = 256
    /\ data[resp.key] # NoRow

(***************************************************************************)
(* The two identifier schemes as text (lib/hash_migration.rs).  The CRC32  *)
(* of a user id is some 32-bit number and the first 8 bytes of its SHA-256 *)
(* are some 8 bytes: both are inputs here, taken from sets that hold the   *)
(* extremes and the values whose hex digits are all decimal.  A 32-bit     *)
(* number is kept as its two 16-bit halves <<hi, lo>>.                     *)
(***************************************************************************)
SettingsPrefix == <<115, 101, 116, 116, 105, 110, 103, 115, 58>>

\* format!("{}", n) of a u32, by long division of the halves by 10.
RECURSIVE Decimal(_)
Decimal(n) ==
    LET hi == n[1]
        lo == n[2]
        low == (hi % 10) * 65536 + lo
    IN  IF hi = 0 /\ lo < 10 THEN <<48 + lo>>
        ELSE Append(Decimal(<<hi \div 10, low \div 10>>), 48 + (low % 10))

\* hex::encode
RECURSIVE HexEncode(_)
HexEncode(bytes) ==
    IF bytes = <<>> THEN <<>>
    ELSE <<HexDigit(Head(bytes) \div 16), HexDigit(Head(bytes) % 16)>>
            \o HexEncode(Tail(bytes))

\* legacy::hash_user_id, from the CRC32 of the user id.
legacy_key_text(user_hash) == SettingsPrefix \o Decimal(user_hash)

\* A current key made of the first 4 digest bytes only.
sha256_key_text_short(result) == SettingsPrefix \o HexEncode(SubSeq(result, 1, 4))

\* sha256::hash_user_id, from the SHA-256 of the user id: its first 8 bytes.
sha256_key_text(result) == SettingsPrefix \o HexEncode(SubSeq(result, 1, 8))

\* A test with no limit on the number of digits.
is_legacy_key_any_length(key) ==
    IF Len(key) >= Len(SettingsPrefix)
       /\ SubSeq(key, 1, Len(SettingsPrefix)) = SettingsPrefix
    THEN LET hash_part == SubSeq(key, Len(SettingsPrefix) + 1, Len(key))
         IN  /\ hash_part # <<>>
             /\ \A i \in 1..Len(hash_part) : hash_part[i] \in 48..57
    ELSE FALSE

is_legacy_key(key) ==
    IF Len(key) >= Len(SettingsPrefix)
       /\ SubSeq(key, 1, Len(SettingsPrefix)) = SettingsPrefix
    THEN LET hash_part == SubSeq(key, Len(SettingsPrefix) + 1, Len(key))
         IN  /\ hash_part # <<>>
             /\ Len(hash_part) <= 10
             /\ \A i \in 1..Len(hash_part) : hash_part[i] \in 48..57
    ELSE FALSE

\* 0, 7, 123, 65536, 999999999, 1000000000, 2^31 and 2^32 - 1.
Crc32Values ==
    {<<0, 0>>, <<0, 7>>, <<0, 123>>, <<1, 0>>, <<15258, 51711>>, <<15258, 51712>>,
     <<32768, 0>>, <<65535, 65535>>}
DigestBytes == {0, 18, 153, 171, 255}
Sha256Values ==
    {Rep(b, 32) : b \in DigestBytes}
        \cup {[i \in 1..32 |-> IF i <= 4 THEN 18 ELSE 171],
              [i \in 1..32 |-> IF i <= 5 THEN 153 ELSE 255],
              [i \in 1..32 |-> IF i <= 8 THEN 52 ELSE 171]}

\* Keys put to is_legacy_key besides the two keys of the user: prefixes
\* right, wrong and cut short, remainders empty, of 1, 10 and 11 digits,
\* and with a letter, a space, a sign or a non-ASCII digit in them.
KeyPrefixes ==
    {SettingsPrefix, <<>>, SubSeq(SettingsPrefix, 1, 8),
     <<105, 110, 118, 97, 108, 105, 100, 58>>,
     <<83>> \o Tail(SettingsPrefix), <<32>> \o SettingsPrefix}
KeyRemainders ==
    {<<>>, <<48>>, <<57>>, Rep(57, 9), Rep(57, 10), Rep(48, 10), Rep(57, 11),
     Rep(49, 16), <<49, 97>>, <<97>>, <<49, 32>>, <<45, 49>>, <<43, 49>>,
     <<47>>, <<58>>, <<217, 163>>, <<49, 50, 51>>,
     <<49, 97, 50, 98, 51, 99, 52, 100, 53, 101, 54, 102, 55, 56, 57, 48>>}
ProbeKeys == {p \o r : p \in KeyPrefixes, r \in KeyRemainders}

\* A user id is hashed under both schemes.
HashUser(user_hash, result) ==
    /\ hist' = [op |-> "keys",
                legacy_key |-> legacy_key_text(user_hash),
                current_key |-> sha256_key_text(result)]
    /\ resp' = NoResp
    /\ UNCHANGED <<now, data, written, users, task, alone>>

\* is_legacy_key is asked about a key.
ProbeKey(key) ==
    /\ resp' = [op |-> "is_legacy_key", key |-> key, result |-> is_legacy_key(key)]
    /\ UNCHANGED <<now, data, written, users, hist, task, alone>>

InitLegacyKey ==
    /\ now = 0
    /\ data = [k \in DataKeys |-> NoRow]
    /\ written = [k \in DataKeys |-> NoValue]
    /\ users = NoUsers
    /\ hist = [op |-> "none"]
    /\ task = [t \in Tasks |-> Idle]
    /\ alone = [t \in Tasks |-> FALSE]
    /\ resp = NoResp

NextLegacyKey ==
    \/ \E c \in Crc32Values, d \in Sha256Values : HashUser(c, d)
    \/ \E k \in ProbeKeys : ProbeKey(k)
    \/ hist.op = "keys" /\ ProbeKey(hist.legacy_key)
    \/ hist.op = "keys" /\ ProbeKey(hist.current_key)

SpecLegacyKey == InitLegacyKey /\ [][NextLegacyKey]_vars

(***************************************************************************)
(* Properties of the identifier schemes.                                   *)
(***************************************************************************)

\* C23: the legacy key and the current key of a user differ, the legacy
\* key is a legacy key and the current key is not, whatever the user id
\* hashes to.
SchemesDistinguishable ==
    hist.op = "keys" =>
        /\ hist.legacy_key # hist.current_key
        /\ is_legacy_key(hist.legacy_key)
        /\ ~is_legacy_key(hist.current_key)
        /\ (resp.op = "is_legacy_key" /\ resp.key = hist.legacy_key) => resp.result
        /\ (resp.op = "is_legacy_key" /\ resp.key = hist.current_key) => ~resp.result

\* C23, its case: the current key of the user has decimal digits only
\* after the prefix, and is_legacy_key answered false for it.
DecimalLookingCurrentKey ==
    /\ hist.op = "keys"
    /\ \A i \in (Len(SettingsPrefix) + 1)..Len(hist.current_key) :
          hist.current_key[i] \in 48..57
    /\ resp.op = "is_legacy_key"
    /\ resp.key = hist.current_key
    /\ ~resp.result

\* C24: is_legacy_key(k) is true iff k begins with "settings:" and what
\* follows is not empty, is at most 10 bytes long and is made of the ASCII
\* digits '0'..'9' only.
LegacyKeyShape ==
    resp.op = "is_legacy_key" =>
        LET k == resp.key
            starts == /\ Len(k) >= 9
                      /\ \A i \in 1..9 :
                            k[i] = <<115, 101, 116, 116, 105, 110, 103, 115, 58>>[i]
        IN  resp.result <=> /\ starts
                            /\ Len(k) > 9
                            /\ Len(k) - 9 <= 10
                            /\ \A i \in 10..Len(k) : k[i] >= 48 /\ k[i] <= 57

\* C24, its case: a key of "settings:" and 10 digits was answered true.
TenDigitKeyIsLegacy ==
    /\ resp.op = "is_legacy_key"
    /\ resp.result
    /\ Len(resp.key) = 19

(***************************************************************************)
(* compress and decompress on their own (lib/utils.rs): short byte        *)
(* strings, longer ones with runs that compress, and strings behind the    *)
(* Zstandard magic.                                                        *)
(***************************************************************************)
MaxCodecLen == 4
CodecInputs ==
    Strings({1, 2}, MaxCodecLen + 1)
        \cup {Rep(b, n) \o w : b \in {1, 2}, n \in 6..(MaxCodecLen + 5),
                               w \in {<<>>, <<1>>, <<2, 2, 2, 2, 2, 2, 2>>}}
        \cup {ZSTD_MAGIC \o w : w \in Strings({1, 2, 4}, MaxCodecLen)}

CodecInput(x) ==
    /\ hist' = [op |-> "codec", x |-> x]
    /\ resp' = NoResp
    /\ UNCHANGED <<now, data, written, users, task, alone>>

\* compress(x), decompress of that, and compress of that again.
CodecApply ==
    /\ hist.op = "codec"
    /\ resp' = [op |-> "codec",
                compressed |-> compress(hist.x),
                restored |-> decompress(compress(hist.x)),
                recompressed |-> compress(decompress(compress(hist.x)))]
    /\ UNCHANGED <<now, data, written, users, hist, task, alone>>

InitCodec ==
    /\ now = 0
    /\ data = [k \in DataKeys |-> NoRow]
    /\ written = [k \in DataKeys |-> NoValue]
    /\ users = NoUsers
    /\ hist = [op |-> "none"]
    /\ task = [t \in Tasks |-> Idle]
    /\ alone = [t \in Tasks |-> FALSE]
    /\ resp = NoResp

NextCodec ==
    \/ \E x \in CodecInputs : CodecInput(x)
    \/ CodecApply

SpecCodec == InitCodec /\ [][NextCodec]_vars

(***************************************************************************)
(* Properties of the codec.                                                *)
(***************************************************************************)

\* C25: compress(decompress(compress(x))) = compress(x) for every byte
\* string x.
RecompressIsStable ==
    resp.op = "codec" => resp.recompressed = resp.compressed

(***************************************************************************)
(* Properties of the sync quota.                                           *)
(***************************************************************************)

\* C26: the uploads are admitted in request order against a running total
\* R that starts at the sum of the manifest's size_bytes.  An upload that
\* passed the key, size, checksum and dominance checks is answered "Total
\* storage limit exceeded" iff R - existing_size(k) + len(value) is above
\* MaxBackupBytes; such an upload and every rejected or dropped one leave R
\* as it was, an admitted one sets R to that value.  The quota errors of the
\* response are exactly the uploads over the limit, in order, and the
\* uploads answered in `uploaded` (or, when the versions fetch failed, with
\* "Failed to save") are exactly the admitted ones, in order.
SyncQuotaRunningTotal ==
    [][\A t \in Tasks :
          LET l == task[t]
              S == l.manifest
              C == l.cm
              n == Len(l.uploads)
              Passes(u) ==
                  /\ validate_key(u.key) = "Ok"
                  /\ Len(u.value) <= MaxKeySizeBytes
                  /\ compute_checksum(u.value) = u.checksum
                  /\ ~(/\ u.key \in DOMAIN S
                       /\ (u.key \notin DOMAIN C \/ C[u.key].version <= S[u.key].version))
              Existing(u) == IF u.key \in DOMAIN S THEN S[u.key].size_bytes ELSE 0
              R[i \in 0..n] ==
                  IF i = 0 THEN SumSizes(S, DOMAIN S)
                  ELSE LET u == l.uploads[i]
                           new == R[i - 1] - Existing(u) + Len(u.value)
                       IN  IF Passes(u) /\ new <= MaxBackupBytes THEN new ELSE R[i - 1]
              Over(i) == LET u == l.uploads[i]
                         IN  /\ Passes(u)
                             /\ R[i - 1] - Existing(u) + Len(u.value) > MaxBackupBytes
              In(i) == LET u == l.uploads[i]
                       IN  /\ Passes(u)
                           /\ R[i - 1] - Existing(u) + Len(u.value) <= MaxBackupBytes
              OverKeys[i \in 0..n] ==
                  IF i = 0 THEN <<>>
                  ELSE IF Over(i) THEN Append(OverKeys[i - 1], l.uploads[i].key)
                  ELSE OverKeys[i - 1]
              InKeys[i \in 0..n] ==
                  IF i = 0 THEN <<>>
                  ELSE IF In(i) THEN Append(InKeys[i - 1], l.uploads[i].key)
                  ELSE InKeys[i - 1]
              KeysWith(list, message) ==
                  LET hit == SelectSeq(list, LAMBDA e : e.error = message)
                  IN  [j \in 1..Len(hit) |-> hit[j].key]
          IN  (l.pc = "sync_respond" /\ task'[t].pc = "idle")
                 => /\ KeysWith(resp'.errors, "Total storage limit exceeded") = OverKeys[n]
                    /\ R[n] <= MaxBackupBytes \/ R[n] = R[0]
                    /\ l.versions_failed
                          => KeysWith(resp'.errors, "Failed to save") = InKeys[n]
                    /\ (~l.versions_failed /\ ~l.batch_failed)
                          => [j \in 1..Len(resp'.uploaded) |-> resp'.uploaded[j].key]
                                = InKeys[n]]_vars

\* C26, its case: two uploads of the second key; the first was admitted and
\* saved, the second went over the limit against the raised total.
SecondUploadOverQuota ==
    /\ resp.op = "sync"
    /\ resp.status = 200
    /\ Len(resp.uploaded) = 1
    /\ resp.uploaded[1].key = KeyB
    /\ resp.errors = <<[key |-> KeyB, error |-> "Total storage limit exceeded"]>>

(***************************************************************************)
(* Properties of racing writers.                                           *)
(***************************************************************************)

\* C27: a writer that succeeds returns the version it read plus one (1 if
\* it read no row), whatever the row holds by then, and the row then holds
\* its value at that version; a second writer of the same key that read the
\* same version is left as it is, so that it returns the same version, and
\* its later success replaces the first writer's value while both requests
\* were answered 200.
RacingWritersShareVersion ==
    [][\A t \in Tasks :
          LET l == task[t]
              ReadVersion(e) == IF e = NoExisting THEN 0 ELSE e.version
          IN  (/\ l.pc = "put_write"
               /\ task'[t].pc = "idle"
               /\ resp'.op = "put"
               /\ resp'.status = 200)
                 => /\ resp'.version = ReadVersion(l.existing) + 1
                    /\ data'[l.key].version = resp'.version
                    /\ data'[l.key].value = compress(l.body)
                    /\ written'[l.key] = l.body
                    /\ \A u \in Tasks \ {t} :
                          (/\ task[u].pc = "put_write"
                           /\ task[u].key = l.key
                           /\ ReadVersion(task[u].existing) = ReadVersion(l.existing))
                             => /\ task'[u] = task[u]
                                /\ ReadVersion(task'[u].existing) + 1 = data'[l.key].version]_vars

\* C27, its case: the first writer was answered 200 with version 1 for the
\* first key, the row holds its body, and the second writer, which read the
\* key when it had no row, is about to write another body.
SecondWriterHoldsSameVersion ==
    /\ resp.op = "put"
    /\ resp.status = 200
    /\ resp.key = KeyA
    /\ resp.version = 1
    /\ ~resp.alone
    /\ written[KeyA] = V5
    /\ data[KeyA].version = 1
    /\ task["t1"].pc = "idle"
    /\ task["t2"].pc = "put_write"
    /\ task["t2"].key = KeyA
    /\ task["t2"].existing = NoExisting
    /\ task["t2"].body = V6

(***************************************************************************)
(* Properties of the metadata read.                                        *)
(***************************************************************************)

\* C28: get_settings_metadata never modifies storage.  When its read of the
\* current key finds a row it returns that row's updated_at at once, with
\* no read of the legacy key; when it finds none it reads the legacy key
\* and, finding a row there, returns that row's updated_at; no step of it
\* changes a row of `users` or `data`.  The routed HEAD changes no row
\* either.
HeadLeavesStorage ==
    [][\A t \in Tasks, ok \in BOOLEAN :
          LET current == users[hash_user_id(Uid)]
              legacy == users[legacy_hash_user_id(Uid)]
          IN  /\ DbHeadCurrent(t, ok)
                    => /\ users' = users
                       /\ data' = data
                       /\ (ok /\ current # NoRow)
                             => /\ resp' = [op |-> "db_head", status |-> "some",
                                            etag |-> ToString(current.updated_at)]
                                /\ task' = task
                       /\ (ok /\ current = NoRow) => task'[t].pc = "head_legacy"
              /\ DbHeadLegacy(t, ok)
                    => /\ users' = users
                       /\ data' = data
                       /\ task'[t].pc = "idle"
                       /\ (ok /\ legacy # NoRow)
                             => resp' = [op |-> "db_head", status |-> "some",
                                         etag |-> ToString(legacy.updated_at)]
              /\ head_settings(ok)
                    => /\ users' = users
                       /\ data' = data]_vars

\* C28, its case: the metadata read answered the updated_at of the legacy
\* row, the only row there is, and the row is as it was at the start.
HeadAnsweredFromLegacyRow ==
    /\ resp.op = "db_head"
    /\ resp.status = "some"
    /\ users[hash_user_id(Uid)] = NoRow
    /\ users[legacy_hash_user_id(Uid)] # NoRow
    /\ users[legacy_hash_user_id(Uid)] = hist.legacy
    /\ resp.etag = ToString(hist.legacy.updated_at)

(***************************************************************************)
(* Properties of the manifest a sync returns.                              *)
(***************************************************************************)

\* Delta sync with the clock moving between its steps.
NextSyncClock ==
    \/ Tick
    \/ NextSync

SpecSyncClock == InitSync /\ [][NextSyncClock]_vars

\* C29: the manifest a sync returns holds every key of the manifest loaded
\* in step 1, and every uploaded key, exactly once and no other key; the
\* entry of a key that was not uploaded is the loaded row unchanged, and
\* the entry of an uploaded key, loaded or new, carries the uploaded
\* version, the upload's checksum and size and the time of the response.
SyncManifestProjection ==
    [][\A t \in Tasks :
          (task[t].pc = "sync_respond" /\ task'[t].pc = "idle")
             => LET l == task[t]
                    valid == Admitted(l).valid
                    entries == resp'.manifest_entries
                    uploaded == resp'.uploaded
                    UploadedKeys == {uploaded[j].key : j \in 1..Len(uploaded)}
                    At(k) == {i \in 1..Len(entries) : entries[i].key = k}
                IN  /\ \A k \in DOMAIN l.manifest \cup UploadedKeys :
                          Cardinality(At(k)) = 1
                    /\ \A i \in 1..Len(entries) :
                          entries[i].key \in DOMAIN l.manifest \cup UploadedKeys
                    /\ \A i \in 1..Len(entries) :
                          entries[i].key \notin UploadedKeys
                             => entries[i] =
                                   [key |-> entries[i].key,
                                    version |-> l.manifest[entries[i].key].version,
                                    checksum |-> l.manifest[entries[i].key].checksum,
                                    size_bytes |-> l.manifest[entries[i].key].size_bytes,
                                    updated_at |-> l.manifest[entries[i].key].updated_at]
                    /\ \A i \in 1..Len(entries), j \in 1..Len(uploaded) :
                          entries[i].key = uploaded[j].key
                             => /\ entries[i].version = uploaded[j].version
                                /\ entries[i].checksum = uploaded[j].checksum
                                /\ \E n \in 1..Len(valid) :
                                      /\ valid[n].key = uploaded[j].key
                                      /\ valid[n].checksum = uploaded[j].checksum
                                      /\ entries[i].size_bytes = Len(valid[n].value)
                                /\ entries[i].updated_at = now]_vars

\* C29, its case: a sync answered after rewriting a loaded key and adding a
\* new one, two entries in the manifest it returns, both stamped with the
\* time of the response, later than the time the rows were written at.
SyncRewroteAndAppended ==
    /\ resp.op = "sync"
    /\ resp.status = 200
    /\ now = 1
    /\ data[KeyA] # NoRow
    /\ data[KeyA].updated_at = 0
    /\ \A i \in 1..Len(resp.manifest_entries) :
          resp.manifest_entries[i].updated_at = 1
    /\ Len(resp.uploaded) = 2
    /\ Len(resp.manifest_entries) = 2
    /\ \E i \in 1..2 : /\ resp.manifest_entries[i].key = KeyA
                       /\ resp.manifest_entries[i].version = 2
    /\ \E i \in 1..2 : /\ resp.manifest_entries[i].key = KeyB
                       /\ resp.manifest_entries[i].version = 1

(***************************************************************************)
(* Properties of a failed versions fetch.                                  *)
(***************************************************************************)

\* C30: when get_versions_batch fails the sync goes straight to its
\* response and writes nothing: no upsert is pending or done; the response
\* has one "Failed to save" entry in `errors` for each admitted upload,
\* after the entries of the rejected ones, an empty `uploaded`, and as its
\* manifest the rows loaded in step 1, each once and unchanged.
VersionsFailureSavesNothing ==
    [][\A t \in Tasks :
          LET l == task[t]
              valid == Admitted(l).valid
          IN  /\ \A ok \in BOOLEAN :
                    (SyncVersions(t, ok) /\ ~ok)
                       => /\ task'[t].pc = "sync_respond"
                          /\ task'[t].versions_failed
                          /\ task'[t].pending = {}
                          /\ task'[t].saved = {}
                          /\ data' = data
                          /\ written' = written
              /\ (l.pc = "sync_respond" /\ l.versions_failed /\ task'[t].pc = "idle")
                    => /\ l.pending = {}
                       /\ l.saved = {}
                       /\ data' = data
                       /\ resp'.uploaded = <<>>
                       /\ resp'.errors =
                             Admitted(l).errors \o
                             [i \in 1..Len(valid) |->
                                [key |-> valid[i].key, error |-> "Failed to save"]]
                       /\ Len(resp'.manifest_entries) = Cardinality(DOMAIN l.manifest)
                       /\ ManifestByKey(resp'.manifest_entries) = l.manifest]_vars

\* C30, its case: the versions fetch failed for an upload of a key the
\* server holds; the sync answered with the failure, nothing uploaded, the
\* loaded row as its manifest, and the row is still the one there was.
VersionsFailureAnswered ==
    /\ resp.op = "sync"
    /\ resp.status = 200
    /\ resp.errors = <<[key |-> KeyA, error |-> "Failed to save"]>>
    /\ resp.uploaded = <<>>
    /\ Len(resp.manifest_entries) = 1
    /\ resp.manifest_entries[1].key = KeyA
    /\ resp.manifest_entries[1].version = 1
    /\ data[KeyA] # NoRow
    /\ data[KeyA].version = 1

(***************************************************************************)
(* Properties of a failed batch persist.                                   *)
(***************************************************************************)

\* C31: when save_data_keys_batch fails (one of its upserts failed), the
\* response has in `errors` only the entries of the rejected uploads, none
\* for an admitted one, an empty `uploaded`, and as its manifest the rows
\* loaded in step 1, each once and unchanged; the response changes no row,
\* and with no other write in between every upsert that succeeded is still
\* in the store, at the version the batch gave it.
BatchFailureIsSilent ==
    [][\A t \in Tasks :
          LET l == task[t]
              valid == Admitted(l).valid
          IN  (l.pc = "sync_respond" /\ l.batch_failed /\ task'[t].pc = "idle")
                 => /\ resp'.op = "sync"
                    /\ resp'.status = 200
                    /\ resp'.errors = Admitted(l).errors
                    /\ resp'.uploaded = <<>>
                    /\ Len(resp'.manifest_entries) = Cardinality(DOMAIN l.manifest)
                    /\ ManifestByKey(resp'.manifest_entries) = l.manifest
                    /\ data' = data
                    /\ written' = written
                    /\ alone[t]
                          => \A i \in l.saved :
                                /\ data[valid[i].key] # NoRow
                                /\ data[valid[i].key].version =
                                      BatchVersion(l.versions, valid[i].key)
                                /\ written[valid[i].key] = valid[i].value]_vars

\* C31, its case: of two admitted uploads one upsert succeeded and one
\* failed; the sync answered with no error, nothing uploaded and an empty
\* manifest, and the row that was written is in the store.
BatchFailureAnswered ==
    /\ resp.op = "sync"
    /\ resp.status = 200
    /\ resp.errors = <<>>
    /\ resp.uploaded = <<>>
    /\ resp.manifest_entries = <<>>
    /\ data[KeyA] # NoRow
    /\ data[KeyA].version = 1
    /\ data[KeyB] = NoRow

(***************************************************************************)
(* Properties of the concurrent fan-out.                                   *)
(***************************************************************************)

\* C32: partial results of a fan-out are usable.  When the batch persist
\* of a sync failed, every admitted upload whose upsert succeeded is in
\* `uploaded` and every other admitted upload has an entry in `errors`; and
\* when the multi-key read of a sync failed while two or more selected keys
\* had a row, the sync still returns downloaded entries.
PartialResultsUsable ==
    [][\A t \in Tasks :
          LET l == task[t]
              valid == Admitted(l).valid
          IN  /\ (l.pc = "sync_respond" /\ l.batch_failed /\ task'[t].pc = "idle")
                    => \A i \in 1..Len(valid) :
                          IF i \in l.saved
                          THEN \E j \in 1..Len(resp'.uploaded) :
                                  resp'.uploaded[j].key = valid[i].key
                          ELSE \E j \in 1..Len(resp'.errors) :
                                  resp'.errors[j].key = valid[i].key
              /\ (/\ l.pc = "sync_download"
                  /\ task'[t].pc # "sync_download"
                  /\ task'[t].download_failed
                  /\ Cardinality(keys_to_download(l.manifest, l.cm) \cap Manifest) >= 2)
                    => task'[t].downloads # <<>>]_vars

(***************************************************************************)
(* A client retrying its sync.  The request (client manifest and uploads)  *)
(* is chosen at the start and kept in `hist`; every attempt sends the same *)
(* uploads, with the same manifest or with the manifest the last response  *)
(* returned.                                                               *)
(***************************************************************************)
RetryUploadLists ==
    {<<Upload(KeyA, V5)>>,
     <<Upload(KeyA, V6)>>,
     <<Upload(KeyA, V5), Upload(KeyB, V5)>>,
     <<Upload(KeyB, V5), Upload(KeyB, V6)>>}

InitRetry ==
    /\ now = 0
    /\ data = [k \in SyncDataKeys |-> NoRow]
    /\ written = [k \in SyncDataKeys |-> NoValue]
    /\ users = NoUsers
    /\ hist \in {[op |-> "request", cm |-> cm, uploads |-> ups] :
                    cm \in SyncManifests, ups \in RetryUploadLists}
    /\ task = [t \in Tasks |-> Idle]
    /\ alone = [t \in Tasks |-> FALSE]
    /\ resp = NoResp

\* The request as it was first sent.
SyncSame(t, ok) == SyncStart(t, hist.cm, hist.uploads, ok)

\* The same uploads, after the client took the returned server_manifest as
\* its manifest.
SyncAdvanced(t, ok) ==
    /\ resp.op = "sync"
    /\ resp.status = 200
    /\ SyncStart(t, ClientManifestOf(resp.server_manifest), hist.uploads, ok)

NextRetry ==
    \/ \E ok \in BOOLEAN : SyncSame("t1", ok)
    \/ \E ok \in BOOLEAN : SyncAdvanced("t1", ok)
    \/ \E ok \in BOOLEAN : SyncDownload("t1", ok)
    \/ \E ok \in BOOLEAN : SyncVersions("t1", ok)
    \/ \E i \in 1..2, ok \in BOOLEAN : SyncUpsert("t1", i, ok)
    \/ SyncRespond("t1")

SpecRetry == InitRetry /\ [][NextRetry]_vars

\* C33, as stated: after a sync that uploaded, sending the identical
\* request again admits every uploaded key again (a second version bump),
\* and a retry admits nothing exactly when it is sent with the returned
\* server_manifest as the client manifest.
ReplayBumpsTwice ==
    [][\A t \in Tasks :
          LET Uploaded == {resp.uploaded[j].key : j \in 1..Len(resp.uploaded)}
              Again == UploadKeys(Admitted(task'[t]).valid)
          IN  (/\ resp.op = "sync"
               /\ resp.status = 200
               /\ resp.uploaded # <<>>)
                 => /\ SyncSame(t, TRUE)
                          => /\ Uploaded \subseteq Again
                             /\ (Again = {}
                                    <=> hist.cm = ClientManifestOf(resp.server_manifest))
                    /\ SyncAdvanced(t, TRUE) => Again = {}]_vars

\* C33: after a sync that uploaded, the identical request sent again
\* admits an uploaded key again exactly when the client manifest declares
\* for it a version above the one just stored (then the key is written a
\* second time, at the next version); otherwise the upload is dropped
\* without an error.  Sent with the returned server_manifest as the client
\* manifest, the retry admits nothing and reports nothing.
ReplayBumpsUndeclared ==
    [][\A t \in Tasks :
          LET Uploaded == {resp.uploaded[j].key : j \in 1..Len(resp.uploaded)}
              Stored(k) == resp.server_manifest[k].version
              adm == Admitted(task'[t])
              Again == UploadKeys(adm.valid)
          IN  (/\ resp.op = "sync"
               /\ resp.status = 200
               /\ resp.uploaded # <<>>
               /\ resp.alone)
                 => /\ SyncSame(t, TRUE)
                          => \A k \in Uploaded :
                                /\ k \in Again
                                      <=> /\ k \in DOMAIN hist.cm
                                          /\ hist.cm[k].version > Stored(k)
                                /\ k \in Again
                                      => BatchVersion(get_versions_batch({k}), k)
                                            = Stored(k) + 1
                    /\ SyncAdvanced(t, TRUE)
                          => /\ adm.valid = <<>>
                             /\ \A j \in 1..Len(adm.errors) :
                                   adm.errors[j].key \notin Uploaded]_vars

\* C33, its case: the identical request was sent twice and each time its
\* upload was written: the key is at version 2 on a store that was empty.
ReplayWroteTwice ==
    /\ resp.op = "sync"
    /\ resp.status = 200
    /\ Len(resp.uploaded) = 1
    /\ resp.uploaded[1].key = KeyA
    /\ resp.uploaded[1].version = 2
    /\ data[KeyA] # NoRow
    /\ data[KeyA].version = 2
    /\ KeyA \in DOMAIN hist.cm
    /\ hist.cm[KeyA].version = 2

(***************************************************************************)
(* PUT at the per-value caps.  The process starts with the dataStore/      *)
(* namespace on or off; bodies are at each cap, one byte over it, and      *)
(* below both.                                                             *)
(***************************************************************************)
SizeKeys == {KeyA, DsKey}

SizeBodies ==
    {V5, [i \in 1..MaxKeySizeBytes |-> 1],
     [i \in 1..MaxKeySizeBytes + 1 |-> 1],
     [i \in 1..MaxDatastoreKeySizeBytes |-> 1],
     [i \in 1..MaxDatastoreKeySizeBytes + 1 |-> 1]}

InitSize ==
    /\ now = 0
    /\ data = [k \in SizeKeys |-> NoRow]
    /\ written = [k \in SizeKeys |-> NoValue]
    /\ users = NoUsers
    /\ hist \in {[op |-> "config", datastore_enabled |-> b] : b \in BOOLEAN}
    /\ task = [t \in Tasks |-> Idle]
    /\ alone = [t \in Tasks |-> FALSE]
    /\ resp = NoResp

NextSize ==
    \/ \E k \in SizeKeys, v \in SizeBodies : PutStart("t1", k, v, OctetStream)
    \/ \E ok \in BOOLEAN : PutRead("t1", ok)
    \/ \E ok \in BOOLEAN : PutWrite("t1", ok)
    \/ \E k \in SizeKeys, ok \in BOOLEAN : GetData(k, NoHeader, ok)
    \/ \E k \in SizeKeys, ok \in BOOLEAN : DeleteData(k, ok)

SpecSize == InitSize /\ [][NextSize]_vars

\* C34: on PUT of a key the handler admits, a body as long as the cap the
\* handler applies to the key (MaxDatastoreKeySizeBytes for a dataStore/
\* key, MaxKeySizeBytes otherwise) goes on to storage, a body one byte
\* longer is answered 413 and changes nothing, and no body within the cap
\* is answered 500 before storage was read; a write that succeeds stores
\* the body.
ValueSizeBoundary ==
    [][\A t \in Tasks :
          /\ \A k \in SizeKeys, v \in SizeBodies :
                LET cap == IF IsDataStoreKey(k) THEN MaxDatastoreKeySizeBytes
                           ELSE MaxKeySizeBytes
                IN  (/\ PutStart(t, k, v, OctetStream)
                     /\ validate_key(k) = "Ok"
                     /\ (DatastoreEnabled \/ ~IsDataStoreKey(k)))
                       => /\ Len(v) = cap + 1
                                => /\ resp' = [op |-> "put", key |-> k, status |-> 413]
                                   /\ task' = task
                                   /\ data' = data
                          /\ Len(v) <= cap
                                => /\ task'[t].pc = "put_read"
                                   /\ task'[t].body = v
                                   /\ resp' = NoResp
          /\ (PutWrite(t, TRUE) /\ resp'.status = 200)
                => written'[task[t].key] = task[t].body]_vars

(***************************************************************************)
(* One settings put racing reads.  The user starts with a legacy row       *)
(* holding S1; reads run at any time; S2 is put once, while no row exists  *)
(* under the current key, and nothing is deleted.                          *)
(***************************************************************************)
InitSettingsRace ==
    /\ now \in 0..MaxTime
    /\ data = [k \in DataKeys |-> NoRow]
    /\ written = [k \in DataKeys |-> NoValue]
    /\ users = [k \in UserKeys |->
                  IF k = legacy_hash_user_id(Uid) THEN UserRow(S1, 0, 0) ELSE NoRow]
    /\ hist = [op |-> "settings", legacy |-> UserRow(S1, 0, 0), deleted |-> FALSE]
    /\ task = [t \in Tasks |-> Idle]
    /\ alone = [t \in Tasks |-> FALSE]
    /\ resp = NoResp

\* The one put of the run.
PutOnce(t, ok) ==
    /\ users[hash_user_id(Uid)] = NoRow
    /\ DbSaveInsert(t, S2, ok)

NextSettingsRace ==
    \/ Tick
    \/ \E t \in Tasks, ok \in BOOLEAN : DbGetCurrent(t, ok)
    \/ \E t \in Tasks, ok \in BOOLEAN : DbGetLegacy(t, ok)
    \/ \E t \in Tasks, ok \in BOOLEAN : MigrateCreatedAt(t, ok)
    \/ \E t \in Tasks, ok \in BOOLEAN : MigrateInsert(t, ok)
    \/ \E t \in Tasks, ok \in BOOLEAN : MigrateDelete(t, ok)
    \/ \E t \in Tasks, ok \in BOOLEAN : PutOnce(t, ok)
    \/ \E t \in Tasks, ok \in BOOLEAN : DbSaveCleanup(t, ok)

SpecSettingsRace == InitSettingsRace /\ [][NextSettingsRace]_vars

\* C35: once the put of S2 has returned success (S2 is stored under the
\* current key and no put is in progress), with no later put or delete,
\* every read that starts yields S2: a read started in that state answers
\* S2, and S2 is still stored after every step, so that the same holds for
\* every later read.
PutNotOverwritten ==
    [][LET current == users[hash_user_id(Uid)]
           Stored(row) == row # NoRow /\ row.settings = S2
       IN  (/\ Stored(current)
            /\ \A t \in Tasks : task[t].pc # "save_cleanup")
              => /\ Stored(users'[hash_user_id(Uid)])
                 /\ \A t \in Tasks :
                       DbGetCurrent(t, TRUE)
                          => /\ resp'.status = "some"
                             /\ resp'.settings = S2]_vars

(***************************************************************************)
(* Delta sync with the same key uploaded more than once in one request.    *)
(* W2 and X2 are two-byte bodies; the client either holds nothing or       *)
(* declares the first key ahead of the server.                             *)
(***************************************************************************)
W2 == <<7, 9>>
X2 == <<9, 7>>

RepeatManifests ==
    {<<>>,
     [k \in {KeyA} |-> [version |-> MaxVersion, checksum |-> compute_checksum(V5)]]}

RepeatUploadLists ==
    {<<Upload(KeyA, V5)>>,
     <<Upload(KeyA, W2), Upload(KeyA, X2)>>,
     <<Upload(KeyB, V5), Upload(KeyB, W2)>>,
     <<Upload(KeyA, W2), Upload(KeyB, X2)>>}

NextRepeat ==
    \/ \E cm \in RepeatManifests, ups \in RepeatUploadLists, ok \in BOOLEAN :
          SyncStart("t1", cm, ups, ok)
    \/ \E ok \in BOOLEAN : SyncDownload("t1", ok)
    \/ \E ok \in BOOLEAN : SyncVersions("t1", ok)
    \/ \E i \in 1..2, ok \in BOOLEAN : SyncUpsert("t1", i, ok)
    \/ SyncRespond("t1")
    \/ \E ok \in BOOLEAN : DeleteData(KeyB, ok)

SpecRepeat == InitSync /\ [][NextRepeat]_vars

\* C36: in a sync, after any prefix of the uploads the running total of
\* step 3 is the total size the step-1 manifest would have with exactly the
\* admitted uploads of that prefix applied to it (each admitted upload
\* replacing the size of its key), and it is never negative.
RunningTotalIsStoreSize ==
    \A t \in Tasks :
       "uploads" \in DOMAIN task[t]
          => LET l == task[t]
                 n == Len(l.uploads)
                 start == SumSizes(l.manifest, DOMAIN l.manifest)
                 Adm(i) == AdmitUploads(l.manifest, l.cm, SubSeq(l.uploads, 1, i), start)
                 Sizes[i \in 0..n] ==
                     IF i = 0
                     THEN [k \in SyncDataKeys |->
                             [size_bytes |-> IF k \in DOMAIN l.manifest
                                             THEN l.manifest[k].size_bytes ELSE 0]]
                     ELSE IF Len(Adm(i).valid) > Len(Adm(i - 1).valid)
                     THEN [Sizes[i - 1] EXCEPT ![l.uploads[i].key] =
                              [size_bytes |-> Len(l.uploads[i].value)]]
                     ELSE Sizes[i - 1]
             IN  \A i \in 0..n :
                    /\ Adm(i).running >= 0
                    /\ Adm(i).running = SumSizes(Sizes[i], SyncDataKeys)

(***************************************************************************)
(* Properties of a sync racing other writers.                              *)
(***************************************************************************)

\* C37: whenever an upsert of a sync writes key k, either k has no row just
\* before the write or the client manifest of that sync declares for k a
\* version strictly above the version stored just before the write,
\* whatever other request wrote k since the sync loaded its manifest.
SyncWritesOnlyOverOlder ==
    [][\A t \in Tasks, i \in 1..2 :
          SyncUpsert(t, i, TRUE)
             => LET l == task[t]
                    k == Admitted(l).valid[i].key
                IN  \/ data[k] = NoRow
                    \/ /\ k \in DOMAIN l.cm
                       /\ data[k].version < l.cm[k].version]_vars

(***************************************************************************)
(* Properties of the response of an undisturbed sync.                      *)
(***************************************************************************)

\* C38: a sync that ran with no other request in flight and no storage
\* failure returns a manifest with the keys of the store as it is right
\* after the sync, each with the stored version, checksum and size_bytes,
\* and `uploaded` has each written key exactly once.
SyncManifestMatchesStore ==
    [][\A t \in Tasks :
          LET l == task[t]
              returned == ManifestByKey(resp'.manifest_entries)
              stored == get_data_manifest
              uploaded == resp'.uploaded
          IN  (/\ l.pc = "sync_respond"
               /\ task'[t].pc = "idle"
               /\ alone[t]
               /\ ~l.download_failed
               /\ ~l.versions_failed
               /\ ~l.batch_failed)
                 => /\ DOMAIN returned = DOMAIN stored
                    /\ \A k \in DOMAIN returned \cap DOMAIN stored :
                          /\ returned[k].version = stored[k].version
                          /\ returned[k].checksum = stored[k].checksum
                          /\ returned[k].size_bytes = stored[k].size_bytes
                    /\ \A i, j \in 1..Len(uploaded) :
                          uploaded[i].key = uploaded[j].key => i = j
                    /\ {uploaded[i].key : i \in 1..Len(uploaded)} =
                          UploadKeys(Admitted(l).valid)]_vars

(***************************************************************************)
(* Properties of the settings ETag.                                        *)
(***************************************************************************)

\* C39: GET /v1/settings answers 304 only to the ETag of the stored row,
\* and the bytes stored under an ETag that a PUT answered stay the same for
\* as long as the row keeps that ETag: a client that holds the bytes of
\* ETag e and is answered 304 holds the stored bytes.
NotModifiedIsSound ==
    [][LET row == users[SettingsKey(Uid)]
           after == users'[SettingsKey(Uid)]
       IN  /\ \A inm \in IfNoneMatchValues :
                 (get_settings(inm, TRUE) /\ resp'.status = 304)
                    => /\ row # NoRow
                       /\ inm = ToString(row.updated_at)
           /\ (/\ row # NoRow
               /\ after # NoRow
               /\ after.updated_at = row.updated_at)
                 => after.settings = row.settings]_vars

(***************************************************************************)
(* The settings gateway with reads and deletes only, one call at a time:   *)
(* nothing is put.                                                         *)
(***************************************************************************)
NextSettingsDelete ==
    \/ Tick
    \/ \E ok \in BOOLEAN : DbGetCurrent("t1", ok)
    \/ \E ok \in BOOLEAN : DbGetLegacy("t1", ok)
    \/ \E ok \in BOOLEAN : MigrateCreatedAt("t1", ok)
    \/ \E ok \in BOOLEAN : MigrateInsert("t1", ok)
    \/ \E ok \in BOOLEAN : MigrateDelete("t1", ok)
    \/ \E ok \in BOOLEAN : DbHeadCurrent("t1", ok)
    \/ \E ok \in BOOLEAN : DbHeadLegacy("t1", ok)
    \/ \E ok \in BOOLEAN : DbDeleteCurrent("t1", ok)
    \/ \E ok \in BOOLEAN : DbDeleteCleanup("t1", ok)

SpecSettingsDelete == InitSettings /\ [][NextSettingsDelete]_vars

\* C40: once delete_user_settings has returned success, with nothing put
\* afterwards, no later get_user_settings or get_settings_metadata finds a
\* row.  (Calls come one at a time here, so a read answered after a delete
\* succeeded started after that delete returned.)
DeletedStaysDeleted ==
    hist.deleted
       => ~(/\ resp.op \in {"db_get", "db_head"}
            /\ resp.status = "some")

====
